---- MODULE Spec2Model ----
(***************************************************************************)
(* A model of the Anything voting application (package app): the in-memory *)
(* store of entries, votes and group order, its snapshot serialisation,    *)
(* the tally and vote views, and the period/weekday resolution.            *)
(*                                                                         *)
(* Go strings that the code splits, orders or serialises (entry names,     *)
(* group names, vote-form keys) are sequences of byte values.  Strings     *)
(* that are only compared for equality (person names, vote values, period  *)
(* names, weekday codes) are TLA+ strings that stand for them.             *)
(***************************************************************************)
EXTENDS Integers, Sequences, FiniteSets, TLC

VARIABLES
    people,      \* App.people: person -> token
    tokens,      \* App.tokens: token -> person
    mu,          \* App.mu: whether a writer holds it, and the readers holding it
    calls,       \* the calls in progress, by goroutine
    db,          \* App.db: [Entries, Votes, GroupOrder]
    autoSaver,   \* App.autoSaver: whether configured, and the Delay calls made
    snapshot,    \* the document written by the last Save (NoDoc before any)
    saved,       \* the value of db when that document was written
    last,        \* the last operation and its inputs
    view,        \* the []groupData returned by the last tallyData/entriesData
    periods,     \* App.periods: period name -> <<start, end>>
    periodList,  \* App.periodList: period names sorted by start hour
    now,         \* App.nowFunc() in App.timezone: [weekday, hour]
    ret          \* the value returned by the last schedule operation

vars == <<people, tokens, mu, calls, db, autoSaver, snapshot, saved, last, view, periods,
          periodList, now, ret>>

----------------------------------------------------------------------------
(* Byte strings *)

\* The separator of vote-form keys, '|'.
Bar == 124

\* The bytes of U+FFFD, the replacement character, in UTF-8.
ReplacementChar == <<239, 191, 189>>

IntCompare(a, b) == IF a < b THEN -1 ELSE IF a > b THEN 1 ELSE 0

\* cmp.Compare on strings: bytewise lexicographic order.
RECURSIVE StrCompare(_, _)
StrCompare(s, t) ==
    IF s = <<>> /\ t = <<>> THEN 0
    ELSE IF s = <<>> THEN -1
    ELSE IF t = <<>> THEN 1
    ELSE IF Head(s) # Head(t) THEN IntCompare(Head(s), Head(t))
    ELSE StrCompare(Tail(s), Tail(t))

\* The index of the first occurrence of byte c in s, 0 when absent.
RECURSIVE IndexFrom(_, _, _)
IndexFrom(s, c, i) ==
    IF i > Len(s) THEN 0
    ELSE IF s[i] = c THEN i
    ELSE IndexFrom(s, c, i + 1)

\* Mutant: split around the last separator.
CutAtLastBar(key) ==
    LET bars == {i \in DOMAIN key : key[i] = Bar}
        i == IF bars = {} THEN 0 ELSE CHOOSE b \in bars : \A o \in bars : o <= b
    IN  IF i = 0
        THEN [before |-> key, after |-> <<>>, found |-> FALSE]
        ELSE [before |-> SubSeq(key, 1, i - 1),
              after  |-> SubSeq(key, i + 1, Len(key)),
              found  |-> TRUE]

\* strings.Cut(key, "|"): split around the first separator.
Cut(key) ==
    LET i == IndexFrom(key, Bar, 1)
    IN  IF i = 0
        THEN [before |-> key, after |-> <<>>, found |-> FALSE]
        ELSE [before |-> SubSeq(key, 1, i - 1),
              after  |-> SubSeq(key, i + 1, Len(key)),
              found  |-> TRUE]

----------------------------------------------------------------------------
(* Go strings as TLA+ strings *)

\* The printable ASCII characters from ' ' (32) to '_' (95) and from 'a'
\* (97) to '~' (126).
AsciiChars ==
    <<" ", "!", "\"", "#", "$", "%", "&", "'", "(", ")", "*", "+",
      ",", "-", ".", "/", "0", "1", "2", "3", "4", "5", "6", "7",
      "8", "9", ":", ";", "<", "=", ">", "?", "@", "A", "B", "C",
      "D", "E", "F", "G", "H", "I", "J", "K", "L", "M", "N", "O",
      "P", "Q", "R", "S", "T", "U", "V", "W", "X", "Y", "Z", "[",
      "\\", "]", "^", "_">>
AsciiLower ==
    <<"a", "b", "c", "d", "e", "f", "g", "h", "i", "j", "k", "l",
      "m", "n", "o", "p", "q", "r", "s", "t", "u", "v", "w", "x",
      "y", "z", "{", "|", "}", "~">>

HexDigits ==
    <<"0", "1", "2", "3", "4", "5", "6", "7", "8", "9", "a", "b", "c", "d", "e", "f">>

\* The TLA+ string that stands for one byte of a Go string: the character
\* itself for printable ASCII but the backslash, which is doubled, and the
\* grave accent; these and any other byte are written \xhh, so that
\* different Go strings stand as different strings.
byteString(b) ==
    IF b = 92 THEN "\\\\"
    ELSE IF b >= 32 /\ b <= 95 THEN AsciiChars[b - 31]
    ELSE IF b >= 97 /\ b <= 126 THEN AsciiLower[b - 96]
    ELSE "\\x" \o HexDigits[(b \div 16) + 1] \o HexDigits[(b % 16) + 1]

\* A Go string given by its bytes, as the TLA+ string that stands for it:
\* the day "mon" of a form is the key "mon" of a schedule.
RECURSIVE goString(_)
goString(s) ==
    IF s = <<>> THEN "" ELSE byteString(Head(s)) \o goString(Tail(s))

\* The Go strings of a []string given by their bytes.
goStrings(ss) == [i \in DOMAIN ss |-> goString(ss[i])]

\* The byte each character of AsciiChars and AsciiLower stands for.
CharBytes ==
    [c \in {AsciiChars[i] : i \in 1..64} \cup {AsciiLower[i] : i \in 1..30} |->
        IF \E i \in 1..64 : AsciiChars[i] = c
        THEN 31 + (CHOOSE i \in 1..64 : AsciiChars[i] = c)
        ELSE 96 + (CHOOSE i \in 1..30 : AsciiLower[i] = c)]
charByte(c) == CharBytes[c]

\* The value of a hexadecimal digit.
hexValue(c) == (CHOOSE i \in 1..16 : HexDigits[i] = c) - 1

\* The bytes of the Go string a TLA+ string stands for: goBytes(goString(s))
\* is s.
RECURSIVE goBytes(_)
goBytes(str) ==
    IF str = "" THEN <<>>
    ELSE IF Head(str) # "\\" THEN <<charByte(Head(str))>> \o goBytes(Tail(str))
    ELSE IF SubSeq(str, 2, 2) = "\\"
    THEN <<92>> \o goBytes(SubSeq(str, 3, Len(str)))
    ELSE <<16 * hexValue(SubSeq(str, 3, 3)) + hexValue(SubSeq(str, 4, 4))>>
             \o goBytes(SubSeq(str, 5, Len(str)))

----------------------------------------------------------------------------
(* Maps and slices *)

\* m[k] = v on a Go map.
MapPut(m, k, v) == [x \in (DOMAIN m) \cup {k} |-> IF x = k THEN v ELSE m[x]]

EmptyMap == <<>>

\* A Go slice: nil, or a (possibly empty) sequence of elements.
NilSlice == [nil |-> TRUE, elems |-> <<>>]
Slice(s) == [nil |-> FALSE, elems |-> s]

\* slices.Contains.
Contains(s, x) == \E i \in DOMAIN s : s[i] = x

\* slices.Index: 0-based, -1 when absent.
Index(s, x) ==
    IF Contains(s, x)
    THEN (CHOOSE i \in DOMAIN s : s[i] = x /\ \A j \in 1..(i - 1) : s[j] # x) - 1
    ELSE -1

Swap(s, i, j) == [s EXCEPT ![i] = s[j], ![j] = s[i]]

\* The inner loop of insertion sort: move the element at index j left while
\* it compares less than its left neighbour.  lt[<<x, y>>] is cmp(x, y) < 0.
RECURSIVE InsertLeft(_, _, _)
InsertLeft(s, j, lt) ==
    IF j > 1 /\ lt[<<s[j], s[j - 1]>>]
    THEN InsertLeft(Swap(s, j, j - 1), j - 1, lt)
    ELSE s

RECURSIVE InsertionSort(_, _, _)
InsertionSort(s, i, lt) ==
    IF i > Len(s) THEN s
    ELSE InsertionSort(InsertLeft(s, i, lt), i + 1, lt)

\* slices.SortFunc on a slice of at most 12 elements (insertion sort).
SortFunc(s, lt) == InsertionSort(s, 2, lt)

Range(s) == {s[i] : i \in DOMAIN s}

\* All orders in which a Go map may iterate over the key set S.
Orders(S) ==
    {s \in [1..Cardinality(S) -> S] : \A i, j \in DOMAIN s : i # j => s[i] # s[j]}

----------------------------------------------------------------------------
(* Static tables *)

\* voteScores: vote value -> numeric score.
voteScores ==
    "strong-no" :> 0 @@ "no" :> 1 @@ "yes" :> 2 @@ "strong-yes" :> 3

\* weekdays[wd].Short, for time.Weekday wd in 0..6 (Sunday = 0).
weekdayShort(wd) == <<"sun", "mon", "tue", "wed", "thu", "fri", "sat">>[wd + 1]

----------------------------------------------------------------------------
(* The store *)

\* db.entryGroups: entry name -> set of groups holding an entry of that name.
entryGroups(d) ==
    LET es == d.Entries.elems
    IN  [n \in {es[i].Name : i \in DOMAIN es} |->
            {es[i].Group : i \in {j \in DOMAIN es : es[j].Name = n}}]

\* The loop of updateVotes over the submitted map, one key at a time.
RECURSIVE cleanVotes(_, _, _, _)
cleanVotes(votes, keys, entryGroup, pv) ==
    IF keys = {} THEN pv
    ELSE
        LET key  == CHOOSE k \in keys : TRUE
            rest == keys \ {key}
            c    == Cut(key)
            group == c.before
            name  == c.after
        IN  IF ~c.found
            THEN cleanVotes(votes, rest, entryGroup, pv)
            ELSE IF name \notin DOMAIN entryGroup \/ group \notin entryGroup[name]
            THEN cleanVotes(votes, rest, entryGroup, pv)
            ELSE IF votes[key] \notin DOMAIN voteScores
            THEN cleanVotes(votes, rest, entryGroup, pv)
            ELSE
                LET gv == IF group \in DOMAIN pv THEN pv[group] ELSE EmptyMap
                IN  cleanVotes(votes, rest, entryGroup,
                               MapPut(pv, group, MapPut(gv, name, votes[key])))

\* Mutant: the cleaned votes are merged into the person's stored votes.
updateVotesMerging(d, person, votes) ==
    LET old == IF person \in DOMAIN d.Votes THEN d.Votes[person] ELSE EmptyMap
        pv  == cleanVotes(votes, DOMAIN votes, entryGroups(d), old)
    IN  [d EXCEPT !.Votes = MapPut(d.Votes, person, pv)]

\* App.updateVotes: the db after the call.
updateVotes(d, person, votes) ==
    LET pv == cleanVotes(votes, DOMAIN votes, entryGroups(d), EmptyMap)
    IN  [d EXCEPT !.Votes = MapPut(d.Votes, person, pv)]

\* Mutant: updateEntries forgets the votes.
updateEntriesClearingVotes(d, entries) ==
    [d EXCEPT !.Entries = entries, !.Votes = EmptyMap]

\* App.updateEntries: the db after the call.
updateEntries(d, entries) == [d EXCEPT !.Entries = entries]

\* App.updateGroupOrder: the db after the call.
updateGroupOrder(d, order) == [d EXCEPT !.GroupOrder = order]

\* Mutant: Delay is called whether or not an auto-saver is configured.
delayAutoSaveAlways(as) == [as EXCEPT !.delays = @ + 1]

\* App.delayAutoSave.
delayAutoSave(as) ==
    IF as.configured THEN [as EXCEPT !.delays = @ + 1] ELSE as

----------------------------------------------------------------------------
(* Snapshot serialisation *)

\* Whether b is a byte in lo..hi.
InRange(b, lo, hi) == lo <= b /\ b <= hi

\* The range of the second byte of a UTF-8 sequence that starts with byte
\* b (utf8.acceptRanges): E0, ED, F0 and F4 narrow it.
utf8SecondLo(b) == IF b = 224 THEN 160 ELSE IF b = 240 THEN 144 ELSE 128
utf8SecondHi(b) == IF b = 237 THEN 159 ELSE IF b = 244 THEN 143 ELSE 191

\* The number of bytes of the sequence that starts with byte b (utf8.first):
\* 0 for a byte that starts none (80..C1, F5..FF).
utf8Len(b) ==
    IF b < 128 THEN 1
    ELSE IF InRange(b, 194, 223) THEN 2
    ELSE IF InRange(b, 224, 239) THEN 3
    ELSE IF InRange(b, 240, 244) THEN 4
    ELSE 0

\* utf8.DecodeRuneInString(s), for a non-empty s: the size of the rune at
\* the start of s, 0 when the bytes there are no valid encoding (the code
\* returns RuneError with size 1).
decodeRuneSize(s) ==
    LET n == utf8Len(Head(s))
    IN  IF n = 0 \/ Len(s) < n THEN 0
        ELSE IF n = 1 THEN 1
        ELSE IF ~InRange(s[2], utf8SecondLo(s[1]), utf8SecondHi(s[1])) THEN 0
        ELSE IF \A i \in 3..n : InRange(s[i], 128, 191) THEN n
        ELSE 0

\* encoding/json writes a Go string coerced to valid UTF-8 and reads it
\* back: a valid sequence is kept, every byte that starts none becomes
\* U+FFFD.
RECURSIVE toValidUTF8(_)
toValidUTF8(s) ==
    IF s = <<>> THEN <<>>
    ELSE LET size == decodeRuneSize(s)
         IN  IF size = 0
             THEN ReplacementChar \o toValidUTF8(Tail(s))
             ELSE SubSeq(s, 1, size) \o toValidUTF8(SubSeq(s, size + 1, Len(s)))

\* A JSON object written from a Go map with byte-string keys and read back
\* into a Go map: keys are written in sorted order, coerced to valid UTF-8,
\* and on reading a repeated key the last one written replaces the others.
\* jsonKeys are the keys read back, jsonKeySource(m, k2) the key of m whose
\* value is read back under k2.
jsonKeys(m) == {toValidUTF8(k) : k \in DOMAIN m}
jsonKeySource(m, k2) ==
    CHOOSE k \in DOMAIN m :
        /\ toValidUTF8(k) = k2
        /\ \A o \in DOMAIN m : toValidUTF8(o) = k2 => StrCompare(o, k) <= 0

\* A Go string that stands as a TLA+ string, written and read back.
jsonString(str) == goString(toValidUTF8(goBytes(str)))

\* The schedule of an entry, a map[string][]string, written and read back:
\* the days are written in the order of their bytes, days and periods
\* coerced to valid UTF-8, and of the days that are read back as the same
\* string the one written last is kept.
jsonOpenSource(open, day2) ==
    CHOOSE day \in DOMAIN open :
        /\ jsonString(day) = day2
        /\ \A o \in DOMAIN open :
              jsonString(o) = day2 => StrCompare(goBytes(o), goBytes(day)) <= 0
jsonOpen(open) ==
    [day2 \in {jsonString(day) : day \in DOMAIN open} |->
        [i \in DOMAIN open[jsonOpenSource(open, day2)] |->
            jsonString(open[jsonOpenSource(open, day2)][i])]]

\* An Entry as written (the struct has no JSON tags: fields Name, Group,
\* Open, Cost).
jsonEntry(e) ==
    [Name |-> toValidUTF8(e.Name), Group |-> toValidUTF8(e.Group),
     Open |-> jsonOpen(e.Open), Cost |-> e.Cost]

jsonGroupVote(gv) == [k2 \in jsonKeys(gv) |-> gv[jsonKeySource(gv, k2)]]
jsonPersonVote(pv) ==
    [k2 \in jsonKeys(pv) |-> jsonGroupVote(pv[jsonKeySource(pv, k2)])]

\* The document json.Encoder.Encode(a.db) writes: an object with the three
\* keys of the db.  A nil slice is written as null, which reads back as nil.
encodeDb(d) ==
    [kind       |-> "object",
     keys       |-> {"entries", "votes", "groupOrder"},
     entries    |-> IF d.Entries.nil THEN NilSlice
                    ELSE Slice([i \in DOMAIN d.Entries.elems |->
                                   jsonEntry(d.Entries.elems[i])]),
     votes      |-> [nil |-> FALSE,
                     val |-> [p \in DOMAIN d.Votes |-> jsonPersonVote(d.Votes[p])]],
     groupOrder |-> IF d.GroupOrder.nil THEN NilSlice
                    ELSE Slice([i \in DOMAIN d.GroupOrder.elems |->
                                   toValidUTF8(d.GroupOrder.elems[i])])]

\* No document has been written.
NoDoc == [kind |-> "none"]

\* What json.Decoder.Decode makes of an input, by kind: "none" is an empty
\* input (io.EOF); "truncated" an input that ends inside a JSON value
\* (io.ErrUnexpectedEOF); "invalid" an input that is not JSON (a syntax
\* error); "mistyped" a JSON value that does not fit the db (a type error);
\* "object" a JSON object that fits the db, a key that is absent or null
\* leaving the field of the decoded db nil.
DocKinds == {"none", "truncated", "invalid", "mistyped", "object"}

\* Mutant: Load replaces every field of the db.
loadDbReplacingAll(d, doc) ==
    IF doc.kind # "object" THEN d
    ELSE [Entries |-> doc.entries, Votes |-> doc.votes.val,
          GroupOrder |-> doc.groupOrder]

\* App.Load: the db after reading doc.  An empty or truncated input and an
\* input that is not valid JSON leave the db as it is.
loadDb(d, doc) ==
    IF doc.kind # "object" THEN d
    ELSE [Entries    |-> IF ~doc.entries.nil THEN doc.entries ELSE d.Entries,
          Votes      |-> IF ~doc.votes.nil THEN doc.votes.val ELSE d.Votes,
          GroupOrder |-> IF ~doc.groupOrder.nil THEN doc.groupOrder
                         ELSE d.GroupOrder]

\* App.Load: the error returned.
loadErr(doc) ==
    IF doc.kind \in {"invalid", "mistyped"} THEN "cannot deserialize data"
    ELSE "nil"

----------------------------------------------------------------------------
(* Views *)

\* Mutant: a repeated name keeps the index written first.
orderIndexFirst(groupOrder) ==
    [n \in Range(groupOrder) |->
        (CHOOSE i \in DOMAIN groupOrder :
            /\ groupOrder[i] = n
            /\ \A j \in DOMAIN groupOrder : groupOrder[j] = n => j >= i) - 1]

\* The index map sortGroupNames builds from groupOrder: a repeated name
\* keeps the index written last.
orderIndex(groupOrder) ==
    [n \in Range(groupOrder) |->
        (CHOOSE i \in DOMAIN groupOrder :
            /\ groupOrder[i] = n
            /\ \A j \in DOMAIN groupOrder : groupOrder[j] = n => j <= i) - 1]

\* The comparison function of sortGroupNames.
groupCompare(a, b, oi) ==
    IF a \in DOMAIN oi /\ b \in DOMAIN oi THEN IntCompare(oi[a], oi[b])
    ELSE IF a \in DOMAIN oi THEN -1
    ELSE IF b \in DOMAIN oi THEN 1
    ELSE StrCompare(a, b)

\* sortGroupNames: names sorted, as a new sequence.
sortGroupNames(names, groupOrder) ==
    LET oi == orderIndex(groupOrder)
    IN  SortFunc(names, [p \in Range(names) \X Range(names) |->
                            groupCompare(p[1], p[2], oi) < 0])

\* The zero value of entryData.
ZeroEntryData ==
    [Name |-> <<>>, Group |-> <<>>, CurrentVote |-> "", Score |-> 0,
     Cost |-> 0, CostDisplay |-> <<>>, Open |-> <<>>, Closed |-> FALSE,
     StrongNo |-> FALSE]

\* Mutant: a group holds the first of its items only.
groupOfFirstOnly(items, groups, gName) ==
    LET i == CHOOSE k \in DOMAIN items :
                 groups[k] = gName /\ \A j \in 1..(k - 1) : groups[j] # gName
    IN  <<items[i]>>

\* groupMap[gName]: the items of group gName, in catalog order; groups[i]
\* is the group of items[i].
groupOf(items, groups, gName) ==
    LET InGroup(i) == groups[i] = gName
        idx == SelectSeq([i \in DOMAIN items |-> i], InGroup)
    IN  [k \in DOMAIN idx |-> items[idx[k]]]

\* entriesData: the comparison of two entries of a group, by name.
nameCompare(a, b) == StrCompare(a.Name, b.Name)

\* entriesData(person), with the keys of groupMap iterated in order iter.
entriesData(d, person, iter) ==
    LET es == d.Entries.elems
        groupNames == sortGroupNames(iter, d.GroupOrder.elems)
        hasVotes == person \in DOMAIN d.Votes
        vote(e) ==
            IF hasVotes /\ e.Group \in DOMAIN d.Votes[person]
                        /\ e.Name \in DOMAIN d.Votes[person][e.Group]
            THEN d.Votes[person][e.Group][e.Name]
            ELSE ""
        ed(e) == [ZeroEntryData EXCEPT !.Name = e.Name, !.Group = e.Group,
                     !.CurrentVote = vote(e), !.Cost = e.Cost, !.Open = e.Open]
        group(gName) ==
            LET entries == groupOf(es, [i \in DOMAIN es |-> es[i].Group], gName)
                sorted  == SortFunc(entries,
                               [p \in Range(entries) \X Range(entries) |->
                                   nameCompare(p[1], p[2]) < 0])
            IN  [Name |-> gName,
                 Entries |-> [i \in DOMAIN sorted |-> ed(sorted[i])]]
    IN  [i \in DOMAIN groupNames |-> group(groupNames[i])]

\* Mutant: the vote is looked up by entry name alone, in any group.
voteValByNameOnly(d, person, e) ==
    IF /\ person \in DOMAIN d.Votes
       /\ \E g \in DOMAIN d.Votes[person] : e.Name \in DOMAIN d.Votes[person][g]
    THEN LET g == CHOOSE x \in DOMAIN d.Votes[person] :
                      e.Name \in DOMAIN d.Votes[person][x]
             v == d.Votes[person][g][e.Name]
         IN  IF v \in DOMAIN voteScores THEN voteScores[v] ELSE 0
    ELSE 2

\* tallyData: the score a person contributes to entry e.
voteVal(d, person, e) ==
    IF /\ person \in DOMAIN d.Votes
       /\ e.Group \in DOMAIN d.Votes[person]
       /\ e.Name \in DOMAIN d.Votes[person][e.Group]
    THEN LET v == d.Votes[person][e.Group][e.Name]
         IN  IF v \in DOMAIN voteScores THEN voteScores[v] ELSE 0
    ELSE 2

\* tallyData: the sum over the persons ps of the roster.
RECURSIVE voteSum(_, _, _)
voteSum(d, ps, e) ==
    IF ps = {} THEN 0
    ELSE LET person == CHOOSE x \in ps : TRUE
         IN  voteVal(d, person, e) + voteSum(d, ps \ {person}, e)

\* Mutant: the flag is set for an entry whose votes sum to less than 4.
strongNoForLowSum(d, ppl, e) == voteSum(d, DOMAIN ppl, e) < 4

\* tallyData: whether some person of the roster stored strong-no for e.
strongNoFor(d, ppl, e) ==
    \E person \in DOMAIN ppl :
        /\ person \in DOMAIN d.Votes
        /\ e.Group \in DOMAIN d.Votes[person]
        /\ e.Name \in DOMAIN d.Votes[person][e.Group]
        /\ d.Votes[person][e.Group][e.Name] = "strong-no"

\* Mutant: an entry is open on every period of a weekday of its schedule.
closedForWholeDay(e, weekday, period) ==
    ~(weekdayShort(weekday) \in DOMAIN e.Open)

\* tallyData: whether e is closed on the weekday for the period.
closedFor(e, weekday, period) ==
    ~(/\ weekdayShort(weekday) \in DOMAIN e.Open
      /\ Contains(e.Open[weekdayShort(weekday)], period))

\* Mutant: the sum is not weighted by 3.
scoredItemUnweighted(d, ppl, e, weekday, period) ==
    [entry    |-> e,
     score    |-> voteSum(d, DOMAIN ppl, e) - e.Cost,
     closed   |-> closedFor(e, weekday, period),
     strongNo |-> strongNoFor(d, ppl, e)]

\* tallyData: the scored item of entry e.
scoredItem(d, ppl, e, weekday, period) ==
    [entry    |-> e,
     score    |-> voteSum(d, DOMAIN ppl, e) * 3 - e.Cost,
     closed   |-> closedFor(e, weekday, period),
     strongNo |-> strongNoFor(d, ppl, e)]

\* Mutant: among equal scores the more expensive entry comes first.
sortEntriesCostDescending(a, b) ==
    IF IntCompare(b.score, a.score) # 0 THEN IntCompare(b.score, a.score)
    ELSE IF IntCompare(b.entry.Cost, a.entry.Cost) # 0
    THEN IntCompare(b.entry.Cost, a.entry.Cost)
    ELSE StrCompare(a.entry.Name, b.entry.Name)

\* Mutant: entries of equal score and cost compare equal.
sortEntriesWithoutName(a, b) ==
    IF IntCompare(b.score, a.score) # 0 THEN IntCompare(b.score, a.score)
    ELSE IntCompare(a.entry.Cost, b.entry.Cost)

\* tallyData: the comparison function sortEntries.
sortEntries(a, b) ==
    IF IntCompare(b.score, a.score) # 0 THEN IntCompare(b.score, a.score)
    ELSE IF IntCompare(a.entry.Cost, b.entry.Cost) # 0
    THEN IntCompare(a.entry.Cost, b.entry.Cost)
    ELSE StrCompare(a.entry.Name, b.entry.Name)

isClosed(s) == s.closed
isOpen(s) == ~s.closed

\* strings.Repeat("$", cost) panics for a negative count.
tallyPanics(d) == \E i \in DOMAIN d.Entries.elems : d.Entries.elems[i].Cost < 0

\* What the view is when the call panics instead of returning.
Panic == <<[panic |-> "strings: negative Repeat count"]>>

\* tallyData(weekday, period), with the keys of groupMap iterated in order
\* iter.
tallyData(d, ppl, weekday, period, iter) ==
    LET es == d.Entries.elems
        items == [i \in DOMAIN es |-> scoredItem(d, ppl, es[i], weekday, period)]
        groupNames == sortGroupNames(iter, d.GroupOrder.elems)
        sorted(part) ==
            SortFunc(part, [p \in Range(part) \X Range(part) |->
                               sortEntries(p[1], p[2]) < 0])
        ed(s) == [ZeroEntryData EXCEPT
                     !.Name = s.entry.Name, !.Score = s.score,
                     !.CostDisplay = [i \in 1..s.entry.Cost |-> 36],
                     !.Closed = s.closed, !.StrongNo = s.strongNo]
        group(gName) ==
            LET entries  == groupOf(items, [i \in DOMAIN es |-> es[i].Group], gName)
                combined == sorted(SelectSeq(entries, isOpen))
                                \o sorted(SelectSeq(entries, isClosed))
            IN  [Name |-> gName,
                 Entries |-> [i \in DOMAIN combined |-> ed(combined[i])]]
    IN  [i \in DOMAIN groupNames |-> group(groupNames[i])]

\* The keys of groupMap in tallyData and entriesData.
groupKeys(d) == {d.Entries.elems[i].Group : i \in DOMAIN d.Entries.elems}

----------------------------------------------------------------------------
(* The lock of the store *)

\* sync.RWMutex: no holder.
Unlocked == [writer |-> FALSE, readers |-> 0]

\* Mutant: RLock does not wait for a writer.
canRLockUnguarded(m) == TRUE

\* Whether RLock and Lock return.
canRLock(m) == ~m.writer
canLock(m) == ~m.writer /\ m.readers = 0

\* The goroutines that call the store, and no call in progress.
Goroutines == {"g1", "g2"}
Idle == [phase |-> "idle"]
NoCalls == [g \in Goroutines |-> Idle]

\* The operations that take the lock for writing, and for reading.
Mutations == {"updateVotes", "updateEntries", "updateGroupOrder", "Load"}
Reads == {"tallyData", "entriesData", "Save"}

\* Load reads its io.Reader and Save writes its io.Writer inside the
\* critical section: json.Decoder.Decode before the assignments,
\* json.Encoder.Encode after it has marshalled the db.
IOSteps == {"Read", "Write"}

\* The fields of the db an operation reads or writes, in its order: one
\* step of the critical section each, and one for the reader or the writer.
\* updateVotes reads the entries and assigns the votes of a person.
fieldSteps(op) ==
    CASE op = "updateVotes" -> <<"Votes">>
      [] op = "updateEntries" -> <<"Entries">>
      [] op = "updateGroupOrder" -> <<"GroupOrder">>
      [] op = "Load" -> <<"Read", "Votes", "Entries", "GroupOrder">>
      [] op = "tallyData" -> <<"Entries", "Votes", "GroupOrder">>
      [] op = "entriesData" -> <<"Entries", "GroupOrder", "Votes">>
      [] op = "Save" -> <<"Entries", "Votes", "GroupOrder", "Write">>

\* The db after a mutation has written the given field.
writeField(d, op, arg, field) ==
    CASE op = "updateVotes" -> updateVotes(d, arg.person, arg.votes)
      [] op = "updateEntries" -> updateEntries(d, arg.entries)
      [] op = "updateGroupOrder" -> updateGroupOrder(d, arg.order)
      [] op = "Load" -> [d EXCEPT ![field] = loadDb(d, arg.doc)[field]]

----------------------------------------------------------------------------
(* Tokens *)

\* New: the values a.tokens may take.  The loop over a.people writes
\* tokens[token] = person; of the persons with one token the one written
\* last stays, and Go does not fix the order of the loop.
tokenMaps(ppl) ==
    {f \in [{ppl[person] : person \in DOMAIN ppl} -> DOMAIN ppl] :
        \A t \in DOMAIN f : ppl[f[t]] = t}

\* personForToken: the person and whether the token was found.
personForToken(toks, token) ==
    IF token \in DOMAIN toks THEN [person |-> toks[token], ok |-> TRUE]
    ELSE [person |-> "", ok |-> FALSE]

----------------------------------------------------------------------------
(* The entry form *)

\* The separators of the value of an entry field: "cost;day:period,period;...".
Semicolon == 59
Colon == 58
Comma == 44

\* strings.Cut(s, c) for a separator of one byte.
CutByte(s, c) ==
    LET i == IndexFrom(s, c, 1)
    IN  IF i = 0
        THEN [before |-> s, after |-> <<>>, found |-> FALSE]
        ELSE [before |-> SubSeq(s, 1, i - 1),
              after  |-> SubSeq(s, i + 1, Len(s)),
              found  |-> TRUE]

\* strings.Split(s, c) for a separator of one byte: at least one part.
RECURSIVE Split(_, _)
Split(s, c) ==
    LET cut == CutByte(s, c)
    IN  IF cut.found THEN <<cut.before>> \o Split(cut.after, c) ELSE <<s>>

\* The value of a string of decimal digits.
RECURSIVE digitsValue(_, _)
digitsValue(s, acc) ==
    IF s = <<>> THEN acc ELSE digitsValue(Tail(s), 10 * acc + (Head(s) - 48))

\* strconv.Atoi: an optional sign and at least one digit, nothing else.
Atoi(s) ==
    LET signed == s # <<>> /\ s[1] \in {43, 45}
        digits == IF signed THEN Tail(s) ELSE s
    IN  IF digits = <<>> \/ \E i \in DOMAIN digits : digits[i] \notin 48..57
        THEN [ok |-> FALSE, n |-> 0]
        ELSE [ok |-> TRUE,
              n  |-> IF s[1] = 45 THEN 0 - digitsValue(digits, 0)
                     ELSE digitsValue(digits, 0)]

\* Mutant: every cost that is a number is taken.
costInRangeAny(cost) == TRUE

\* handleEntriesPost: the costs it takes.
costInRange(cost) == cost >= 1 /\ cost <= 4

\* handleEntriesPost: the schedule made of parts[i..]: a part that is
\* empty, has no ':' or has nothing after it is skipped.
RECURSIVE formOpen(_, _, _)
formOpen(parts, i, open) ==
    IF i > Len(parts) THEN open
    ELSE LET cut == CutByte(parts[i], Colon)
         IN  IF parts[i] = <<>> \/ ~cut.found \/ cut.after = <<>>
             THEN formOpen(parts, i + 1, open)
             ELSE formOpen(parts, i + 1,
                           MapPut(open, goString(cut.before),
                                  goStrings(Split(cut.after, Comma))))

\* handleEntriesPost: the entry made of one field of the form, if any.
formEntry(key, value) ==
    LET cut   == Cut(key)
        parts == Split(value, Semicolon)
        cost  == Atoi(parts[1])
    IN  IF ~cut.found \/ cut.before = <<>> \/ cut.after = <<>>
        THEN [ok |-> FALSE]
        ELSE IF ~cost.ok \/ ~costInRange(cost.n)
        THEN [ok |-> FALSE]
        ELSE [ok |-> TRUE,
              entry |-> [Name |-> cut.after, Group |-> cut.before,
                         Open |-> formOpen(parts, 2, EmptyMap), Cost |-> cost.n]]

\* handleEntriesPost: the entries made of the fields of the form, iterated
\* in the order iter; nil when there is none.
RECURSIVE formEntriesFrom(_, _, _)
formEntriesFrom(fields, iter, i) ==
    IF i > Len(iter) THEN <<>>
    ELSE LET fe == formEntry(iter[i], fields[iter[i]])
         IN  (IF fe.ok THEN <<fe.entry>> ELSE <<>>)
                 \o formEntriesFrom(fields, iter, i + 1)

formEntries(fields, iter) ==
    LET es == formEntriesFrom(fields, iter, 1)
    IN  IF es = <<>> THEN NilSlice ELSE Slice(es)

----------------------------------------------------------------------------
(* Periods and weekdays *)

\* Mutant: a period whose start is after its end matches no hour.
coversNoWrap(bounds, hour) ==
    bounds[1] < bounds[2] /\ hour >= bounds[1] /\ hour < bounds[2]

\* Whether periodForHour matches the period with the given bounds.
covers(bounds, hour) ==
    LET start == bounds[1]
        end   == bounds[2]
    IN  IF start < end THEN hour >= start /\ hour < end
        ELSE IF start > end THEN hour >= start \/ hour < end
        ELSE FALSE

\* periodForHour: the values it may return.  It returns the first match in
\* the iteration order of the map, which Go does not fix.
periodForHour(ps, hour) ==
    LET matches == {name \in DOMAIN ps : covers(ps[name], hour)}
    IN  IF matches = {} THEN {""} ELSE matches

\* New: the values periodList may take: the names in map iteration order,
\* sorted by start hour.
periodLists(ps) ==
    {SortFunc(o, [p \in (DOMAIN ps) \X (DOMAIN ps) |->
                     IntCompare(ps[p[1]][1], ps[p[2]][1]) < 0]) :
        o \in Orders(DOMAIN ps)}

\* Mutant: the day after Saturday is weekday 7.
periodTallyWeekdayNoWrap(list, t, currentPeriod, period) ==
    IF currentPeriod = period THEN t.weekday
    ELSE IF /\ Index(list, currentPeriod) >= 0 /\ Index(list, period) >= 0
            /\ Index(list, period) < Index(list, currentPeriod)
         THEN t.weekday + 1
         ELSE t.weekday

\* periodTallyWeekday(period), given the value periodForHour returned.
periodTallyWeekday(list, t, currentPeriod, period) ==
    IF currentPeriod = period THEN t.weekday
    ELSE
        LET currentIdx   == Index(list, currentPeriod)
            requestedIdx == Index(list, period)
        IN  IF currentIdx >= 0 /\ requestedIdx >= 0 /\ requestedIdx < currentIdx
            THEN (t.weekday + 1) % 7
            ELSE t.weekday

----------------------------------------------------------------------------
(* Inputs *)

\* Bounds of the model.
MaxEntries == 2     \* entries of a catalog passed to updateEntries
MaxVotes == 2       \* keys of a vote form passed to updateVotes
MaxTallyEntries == 3  \* entries of a catalog that is tallied
MaxTallyVotes == 2    \* votes stored, in all, when a catalog is tallied
MaxGroupOrder == 3    \* values of the _groupOrder field of an entry form
MaxPeriods == 2       \* periods of a period table
MaxFields == 2        \* entry fields of an entry form
MaxDelays == 2        \* calls of Delay after which no new call is begun

\* Group names "a", "b", "c"; entry names "x", "y", "z", "x|y".
gA == <<97>>
gB == <<98>>
gC == <<99>>
gD == <<100>>
nX == <<120>>
nY == <<121>>
nZ == <<122>>
nXY == <<120, Bar, 121>>

\* An entry name of one byte that is not valid UTF-8.
nBad == <<255>>

\* The vote-form key the vote page builds for an entry: "Group|Name".
FormKey(group, name) == group \o <<Bar>> \o name

Entry(group, name, cost, open) ==
    [Name |-> name, Group |-> group, Open |-> open, Cost |-> cost]

OpenLunch == "mon" :> <<"lunch">>
OpenDinner == "mon" :> <<"dinner">> @@ "tue" :> <<"lunch", "dinner">>
OpenBoth == "mon" :> <<"lunch", "dinner">>
OpenTuesday == "tue" :> <<"lunch">>

\* The roster of the tests: person -> token.
testPeople == "alice" :> "tokenA" @@ "bob" :> "tokenB"

\* All sequences over S of length at most n.
SeqsUpTo(S, n) == UNION {[1..k -> S] : k \in 0..n}

\* All maps from at most n keys of K to values of V.
MapsUpTo(K, V, n) ==
    UNION {[ks -> V] : ks \in {x \in SUBSET K : Cardinality(x) <= n}}

\* Catalogs passed to updateEntries: nil, or up to MaxEntries entries, all
\* different.  The entries are ("a", "x") and ("b", "x|y").
EntryInputs == {Entry(gA, nX, 1, OpenLunch), Entry(gB, nXY, 2, OpenDinner)}
CatalogInputs ==
    {NilSlice} \cup
    {Slice(s) : s \in {t \in SeqsUpTo(EntryInputs, MaxEntries) :
                          \A i, j \in DOMAIN t : i # j => t[i] # t[j]}}

\* Vote forms: keys "a|x", "b|x|y" (two separators), "b|x" (a name of the
\* catalog under another group) and "ax" (no separator); values are the four
\* votes and an unrecognised one.
KeyInputs == {FormKey(gA, nX), FormKey(gB, nXY), FormKey(gB, nX), gA \o nX}
VoteInputs == {"strong-no", "no", "yes", "strong-yes", "maybe"}
VoteMaps == MapsUpTo(KeyInputs, VoteInputs, MaxVotes)

\* The state of the store New builds from params.Entries = entries, with
\* auto-save not configured.
NewDb(entries) ==
    [Entries |-> entries, Votes |-> EmptyMap, GroupOrder |-> NilSlice]

NoOp == [op |-> "new"]

\* The variables an operation of the store leaves alone.
scheduleVars == <<periods, periodList, now, ret>>

\* The variables an operation of the schedule leaves alone.
storeVars == <<people, tokens, mu, calls, db, autoSaver, snapshot, saved, view>>

InitStore ==
    /\ people = testPeople
    /\ tokens \in tokenMaps(people)
    /\ mu = Unlocked
    /\ calls = NoCalls
    /\ autoSaver = [configured |-> FALSE, delays |-> 0]
    /\ snapshot = NoDoc
    /\ saved = NewDb(NilSlice)
    /\ view = <<>>

InitRest ==
    /\ InitStore
    /\ periods = EmptyMap
    /\ periodList = <<>>
    /\ now = [weekday |-> 0, hour |-> 0]
    /\ ret = ""

\* The votes stored for a person, as (group, name, vote) triples.
StoredVotes(d, person) ==
    IF person \notin DOMAIN d.Votes THEN {}
    ELSE UNION {{<<g, n, d.Votes[person][g][n]>> : n \in DOMAIN d.Votes[person][g]} :
                   g \in DOMAIN d.Votes[person]}

----------------------------------------------------------------------------
(* Vote submission against a changing catalog *)

InitVotes ==
    /\ InitRest
    /\ last = NoOp
    /\ \E entries \in CatalogInputs : db = NewDb(entries)

UpdateVotes(person, votes) ==
    /\ db' = updateVotes(db, person, votes)
    /\ autoSaver' = delayAutoSave(autoSaver)
    /\ last' = [op |-> "updateVotes", person |-> person, votes |-> votes,
                removed |-> Cardinality(StoredVotes(db, person)
                               \ StoredVotes(db', person))]
    /\ UNCHANGED <<people, tokens, mu, calls, snapshot, saved, view>>
    /\ UNCHANGED scheduleVars

UpdateEntries(entries) ==
    /\ db' = updateEntries(db, entries)
    /\ autoSaver' = delayAutoSave(autoSaver)
    /\ last' = [op |-> "updateEntries"]
    /\ UNCHANGED <<people, tokens, mu, calls, snapshot, saved, view>>
    /\ UNCHANGED scheduleVars

NextVotes ==
    \/ \E votes \in VoteMaps : UpdateVotes("alice", votes)
    \/ \E entries \in CatalogInputs : UpdateEntries(entries)

SpecVotes == InitVotes /\ [][NextVotes]_vars

----------------------------------------------------------------------------
(* Tally and vote views of a catalog with votes *)

\* Entries ("a","x"), ("a","y"), ("a","z") and ("b","x"): three of one group,
\* and one name in two groups.  With costs 1 and 4 two entries can have the
\* same score and different costs.
TallyEntryInputs ==
    {Entry(gA, nX, 1, OpenLunch), Entry(gA, nY, 1, OpenLunch),
     Entry(gA, nZ, 4, OpenBoth), Entry(gB, nX, 2, OpenTuesday)}

\* Catalogs of distinct entries.
TallyCatalogs ==
    {Slice(s) : s \in {t \in SeqsUpTo(TallyEntryInputs, MaxTallyEntries) :
                          \A i, j \in DOMAIN t : i # j => t[i] # t[j]}}

\* The vote-form keys of the entries of a catalog.
CatalogKeys(entries) ==
    {FormKey(entries.elems[i].Group, entries.elems[i].Name) :
        i \in DOMAIN entries.elems}

\* Views are asked for Monday lunch and Monday dinner.
WeekdayInputs == {1}
PeriodInputs == {"lunch", "dinner"}

\* The store after New, a vote form of bob and a vote form of alice.
InitTally ==
    /\ InitRest
    /\ \E entries \in TallyCatalogs :
        \E m1, m2 \in MapsUpTo(CatalogKeys(entries), DOMAIN voteScores, MaxTallyVotes) :
            /\ Cardinality(DOMAIN m1) + Cardinality(DOMAIN m2) <= MaxTallyVotes
            /\ db = updateVotes(updateVotes(NewDb(entries), "bob", m2), "alice", m1)
            /\ last = [op |-> "updateVotes", person |-> "alice", votes |-> m1,
                       removed |-> 0]

TallyData(weekday, period, iter) ==
    /\ view' = IF tallyPanics(db) THEN Panic
               ELSE tallyData(db, people, weekday, period, iter)
    /\ last' = [op |-> "tallyData", weekday |-> weekday, period |-> period]
    /\ UNCHANGED <<people, tokens, mu, calls, db, autoSaver, snapshot, saved>>
    /\ UNCHANGED scheduleVars

EntriesData(person, iter) ==
    /\ view' = entriesData(db, person, iter)
    /\ last' = [op |-> "entriesData", person |-> person]
    /\ UNCHANGED <<people, tokens, mu, calls, db, autoSaver, snapshot, saved>>
    /\ UNCHANGED scheduleVars

NextTally ==
    \/ \E weekday \in WeekdayInputs, period \in PeriodInputs,
          iter \in Orders(groupKeys(db)) : TallyData(weekday, period, iter)
    \/ \E person \in DOMAIN people, iter \in Orders(groupKeys(db)) :
          EntriesData(person, iter)

SpecTally == InitTally /\ [][NextTally]_vars

----------------------------------------------------------------------------
(* The tally of a catalog in each of its orders *)

\* The store after New with a catalog of distinct entries in some order, a
\* vote form of alice with at most one vote, and an entry form's group
\* order.
InitOrders ==
    /\ InitRest
    /\ \E entries \in TallyCatalogs :
        \E votes \in MapsUpTo(CatalogKeys(entries), DOMAIN voteScores, 1) :
          \E order \in {NilSlice, Slice(<<gB>>), Slice(<<gB, gA>>)} :
            /\ db = updateGroupOrder(
                        updateVotes(NewDb(entries), "alice", votes), order)
            /\ last = [op |-> "updateGroupOrder", order |-> order]

NextOrders ==
    \E weekday \in WeekdayInputs, period \in PeriodInputs,
       iter \in Orders(groupKeys(db)) : TallyData(weekday, period, iter)

SpecOrders == InitOrders /\ [][NextOrders]_vars

----------------------------------------------------------------------------
(* Views of catalogs with repeated entries *)

\* Two entries ("a", "x") that differ in cost and schedule, and ("b", "x").
ListEntryInputs ==
    {Entry(gA, nX, 1, OpenLunch), Entry(gA, nX, 2, OpenDinner),
     Entry(gB, nX, 1, OpenLunch)}

\* Catalogs of up to MaxTallyEntries entries; an entry may be repeated.
ListCatalogs ==
    {NilSlice} \cup {Slice(s) : s \in SeqsUpTo(ListEntryInputs, MaxTallyEntries)}

InitListing ==
    /\ InitRest
    /\ last = NoOp
    /\ \E entries \in ListCatalogs : db = NewDb(entries)

NextListing ==
    \/ \E weekday \in WeekdayInputs, period \in PeriodInputs,
          iter \in Orders(groupKeys(db)) : TallyData(weekday, period, iter)
    \/ \E person \in {"alice"}, iter \in Orders(groupKeys(db)) :
          EntriesData(person, iter)

SpecListing == InitListing /\ [][NextListing]_vars

----------------------------------------------------------------------------
(* Views of a catalog with a group order *)

\* One entry in each of the groups "a", "b" and "c".
GroupEntryInputs ==
    {Entry(gA, nX, 1, OpenLunch), Entry(gB, nX, 1, OpenLunch),
     Entry(gC, nX, 1, OpenLunch)}

GroupCatalogs ==
    {Slice(s) : s \in {t \in SeqsUpTo(GroupEntryInputs, Cardinality(GroupEntryInputs)) :
                          \A i, j \in DOMAIN t : i # j => t[i] # t[j]}}

\* The group orders of the entry form: no _groupOrder field at all, or up to
\* MaxGroupOrder values, among them "d", a group without entries.
GroupOrderInputs ==
    {NilSlice} \cup {Slice(s) : s \in SeqsUpTo({gA, gB, gC, gD}, MaxGroupOrder)}

\* The store after New and an entry form: updateEntries, then
\* updateGroupOrder.
InitGroups ==
    /\ InitRest
    /\ \E entries \in GroupCatalogs, order \in GroupOrderInputs :
        /\ db = updateGroupOrder(updateEntries(NewDb(NilSlice), entries), order)
        /\ last = [op |-> "updateGroupOrder", order |-> order]

NextGroups ==
    \/ \E weekday \in WeekdayInputs, period \in PeriodInputs,
          iter \in Orders(groupKeys(db)) : TallyData(weekday, period, iter)
    \/ \E person \in DOMAIN people, iter \in Orders(groupKeys(db)) :
          EntriesData(person, iter)

SpecGroups == InitGroups /\ [][NextGroups]_vars

----------------------------------------------------------------------------
(* Periods of the day *)

PeriodNames == {"breakfast", "lunch", "dinner"}
BoundaryHours == {0, 10, 15}
Hours == 0..23
Weekdays == 0..6

\* Period tables of up to MaxPeriods periods, each with a start and an end
\* hour.  New accepts every table: tables with overlapping periods and with
\* periods of equal start and end are among them.
PeriodTables ==
    UNION {[S -> BoundaryHours \X BoundaryHours] :
             S \in {T \in SUBSET PeriodNames : Cardinality(T) <= MaxPeriods}}

\* The app after New, at some hour of some day.
InitSchedule ==
    /\ InitStore
    /\ db = NewDb(NilSlice)
    /\ last = NoOp
    /\ periods \in PeriodTables
    /\ periodList \in periodLists(periods)
    /\ now \in [weekday : Weekdays, hour : Hours]
    /\ ret = ""

\* periodForHour(a.periods, now.Hour()).
PeriodForHour ==
    /\ ret' \in periodForHour(periods, now.hour)
    /\ last' = [op |-> "periodForHour", hour |-> now.hour]
    /\ UNCHANGED <<periods, periodList, now>>
    /\ UNCHANGED storeVars

\* a.periodTallyWeekday(period).
PeriodTallyWeekday(period) ==
    /\ \E currentPeriod \in periodForHour(periods, now.hour) :
        /\ ret' = periodTallyWeekday(periodList, now, currentPeriod, period)
        /\ last' = [op |-> "periodTallyWeekday", period |-> period,
                    current |-> currentPeriod]
    /\ UNCHANGED <<periods, periodList, now>>
    /\ UNCHANGED storeVars

NextSchedule ==
    \/ PeriodForHour
    \/ \E period \in PeriodNames : PeriodTallyWeekday(period)

SpecSchedule == InitSchedule /\ [][NextSchedule]_vars

----------------------------------------------------------------------------
(* The period table of the configuration *)

\* Mutant: a period that wraps past midnight covers no hour after midnight.
hoursForPeriodNoWrap(start, end) ==
    IF start < end THEN [i \in 1..(end - start) |-> start + i - 1]
    ELSE [i \in 1..(24 - start) |-> start + i - 1]

\* hoursForPeriod: the hours of [start, end), in the order it lists them.
hoursForPeriod(start, end) ==
    IF start < end THEN [i \in 1..(end - start) |-> start + i - 1]
    ELSE [i \in 1..(24 - start) |-> start + i - 1]
            \o [i \in 1..end |-> i - 1]

\* Periods, the loop over hours: seen after the hours from the j-th on, or
\* the error.
seenHours(hours, j, name, seen) ==
    LET RECURSIVE from(_, _)
        from(k, sn) ==
            IF k > Len(hours) THEN [err |-> "", seen |-> sn]
            ELSE IF hours[k] \in DOMAIN sn
                 THEN [err |-> "overlap", seen |-> sn]
                 ELSE from(k + 1, MapPut(sn, hours[k], name))
    IN  from(j, seen)

\* Periods, the loop over the table in the iteration order iter: the error
\* it returns, "" for none.
validatePeriods(raw, iter) ==
    LET RECURSIVE from(_, _)
        from(i, seen) ==
            IF i > Len(iter) THEN ""
            ELSE LET name  == iter[i]
                     start == raw[name][1]
                     end   == raw[name][2]
                 IN  IF start = end THEN "equal"
                     ELSE LET r == seenHours(hoursForPeriod(start, end), 1,
                                             name, seen)
                          IN  IF r.err # "" THEN r.err
                              ELSE from(i + 1, r.seen)
    IN  from(1, EmptyMap)

\* The environment holds a period table; nothing has been loaded yet.
InitConfig ==
    /\ InitStore
    /\ db = NewDb(NilSlice)
    /\ last = NoOp
    /\ periods \in PeriodTables
    /\ periodList = <<>>
    /\ now = [weekday |-> 0, hour |-> 0]
    /\ ret = ""

\* Periods(): validates the table of the environment.
Periods ==
    /\ \E iter \in Orders(DOMAIN periods) :
           ret' = [err |-> validatePeriods(periods, iter)]
    /\ last' = [op |-> "Periods"]
    /\ UNCHANGED <<periods, periodList, now>>
    /\ UNCHANGED storeVars

NextConfig == Periods

SpecConfig == InitConfig /\ [][NextConfig]_vars

----------------------------------------------------------------------------
(* Saving and loading the store *)

\* The name "e" with an acute accent, two bytes of valid UTF-8.
nAcute == <<195, 169>>

\* The schedule of the form value "1;\xff:lunch": the day is the byte 255.
OpenBadDay == goString(<<255>>) :> <<"lunch">>

\* Catalogs: none (an entry form without valid entries), an empty one, one
\* entry, one entry whose name is not ASCII, one entry whose name is not
\* valid UTF-8, and one entry with a day that is not valid UTF-8.
StoreCatalogs ==
    {NilSlice, Slice(<<>>), Slice(<<Entry(gA, nX, 1, OpenLunch)>>),
     Slice(<<Entry(gA, nAcute, 1, OpenLunch)>>),
     Slice(<<Entry(gA, nBad, 1, OpenLunch)>>),
     Slice(<<Entry(gA, nX, 1, OpenBadDay)>>)}

StoreVoteForms ==
    {EmptyMap, MapPut(EmptyMap, FormKey(gA, nX), "yes"),
     MapPut(EmptyMap, FormKey(gA, nAcute), "yes"),
     MapPut(EmptyMap, FormKey(gA, nBad), "no")}

\* Group orders: none (an entry form without _groupOrder), and two lists.
StoreGroupOrders == {NilSlice, Slice(<<gA>>), Slice(<<gB, gA>>)}

InitStoreSpec ==
    /\ InitRest
    /\ last = NoOp
    /\ \E entries \in StoreCatalogs : db = NewDb(entries)

\* New, without an auto-save file: a store with the entries of the
\* configuration, no votes and no group order.
New(entries) ==
    /\ db' = NewDb(entries)
    /\ autoSaver' = [configured |-> FALSE, delays |-> 0]
    /\ last' = NoOp
    /\ UNCHANGED <<people, tokens, mu, calls, snapshot, saved, view>>
    /\ UNCHANGED scheduleVars

UpdateGroupOrder(order) ==
    /\ db' = updateGroupOrder(db, order)
    /\ autoSaver' = delayAutoSave(autoSaver)
    /\ last' = [op |-> "updateGroupOrder", order |-> order]
    /\ UNCHANGED <<people, tokens, mu, calls, snapshot, saved, view>>
    /\ UNCHANGED scheduleVars

\* Save: the document written, and the db it was written from.
Save ==
    /\ snapshot' = encodeDb(db)
    /\ saved' = db
    /\ last' = [op |-> "Save"]
    /\ UNCHANGED <<people, tokens, mu, calls, db, autoSaver, view>>
    /\ UNCHANGED scheduleVars

\* Load, reading the document written last (nothing, if none was written).
Load ==
    /\ db' = loadDb(db, snapshot)
    /\ last' = [op |-> "Load", err |-> loadErr(snapshot)]
    /\ UNCHANGED <<people, tokens, mu, calls, autoSaver, snapshot, saved, view>>
    /\ UNCHANGED scheduleVars

NextStore ==
    \/ \E entries \in StoreCatalogs : New(entries)
    \/ \E votes \in StoreVoteForms : UpdateVotes("alice", votes)
    \/ \E entries \in StoreCatalogs : UpdateEntries(entries)
    \/ \E order \in StoreGroupOrders : UpdateGroupOrder(order)
    \/ Save
    \/ Load

SpecStore == InitStoreSpec /\ [][NextStore]_vars

----------------------------------------------------------------------------
(* Votes for entries that leave the catalog *)

\* Catalogs with and without the entry ("a", "x").
OrphanCatalogs ==
    {Slice(<<Entry(gA, nX, 1, OpenLunch), Entry(gA, nY, 1, OpenLunch)>>),
     Slice(<<Entry(gA, nY, 1, OpenLunch)>>)}

\* The vote form of alice, and the vote forms of bob.
OrphanVoteForms ==
    {MapPut(EmptyMap, FormKey(gA, nX), "strong-no"),
     MapPut(EmptyMap, FormKey(gA, nX), "yes")}
OtherVoteForms == {EmptyMap, MapPut(EmptyMap, FormKey(gA, nX), "no")}

\* The store after New with both entries and a vote form of alice for
\* ("a", "x").  Alice sends no other form.
InitOrphans ==
    /\ InitRest
    /\ \E votes \in OrphanVoteForms :
        /\ db = updateVotes(NewDb(Slice(<<Entry(gA, nX, 1, OpenLunch),
                                          Entry(gA, nY, 1, OpenLunch)>>)),
                            "alice", votes)
        /\ last = [op |-> "updateVotes", person |-> "alice", votes |-> votes,
                   removed |-> 0]

NextOrphans ==
    \/ \E votes \in OtherVoteForms : UpdateVotes("bob", votes)
    \/ \E entries \in OrphanCatalogs : UpdateEntries(entries)
    \/ \E order \in {NilSlice, Slice(<<gA>>)} : UpdateGroupOrder(order)
    \/ Save
    \/ Load
    \/ \E weekday \in WeekdayInputs, period \in PeriodInputs,
          iter \in Orders(groupKeys(db)) : TallyData(weekday, period, iter)
    \/ \E person \in DOMAIN people, iter \in Orders(groupKeys(db)) :
          EntriesData(person, iter)

SpecOrphans == InitOrphans /\ [][NextOrphans]_vars

----------------------------------------------------------------------------
(* Loading documents *)

\* The values a key of a document may have: none (the key is absent), null,
\* or a value.
DocEntries == {NilSlice, Slice(<<>>), Slice(<<Entry(gB, nY, 2, OpenDinner)>>)}
DocVotes ==
    {[nil |-> TRUE, val |-> EmptyMap], [nil |-> FALSE, val |-> EmptyMap],
     [nil |-> FALSE,
      val |-> MapPut(EmptyMap, "bob", MapPut(EmptyMap, gB, MapPut(EmptyMap, nY, "no")))]}
DocGroupOrders == {NilSlice, Slice(<<>>), Slice(<<gB>>)}

\* JSON objects that fit the db; a key that is absent has no value.
ObjectDocuments ==
    {doc \in [kind : {"object"}, keys : SUBSET {"entries", "votes", "groupOrder"},
              entries : DocEntries, votes : DocVotes, groupOrder : DocGroupOrders] :
        /\ "entries" \notin doc.keys => doc.entries.nil
        /\ "votes" \notin doc.keys => doc.votes.nil
        /\ "groupOrder" \notin doc.keys => doc.groupOrder.nil}

Documents == ObjectDocuments \cup {[kind |-> k] : k \in DocKinds \ {"object"}}

\* A store with an entry, a vote and a group order, or a new one.
InitLoad ==
    /\ InitRest
    /\ last = NoOp
    /\ db \in {NewDb(NilSlice),
                updateGroupOrder(
                    updateVotes(NewDb(Slice(<<Entry(gA, nX, 1, OpenLunch)>>)),
                                "alice", MapPut(EmptyMap, FormKey(gA, nX), "yes")),
                    Slice(<<gA>>))}

\* Load(r), with r a reader of the document doc.
LoadDocument(doc) ==
    /\ db' = loadDb(db, doc)
    /\ ret' = loadErr(doc)
    /\ snapshot' = doc
    /\ last' = [op |-> "Load", err |-> loadErr(doc), before |-> db]
    /\ UNCHANGED <<people, tokens, mu, calls, autoSaver, saved, view, periods, periodList, now>>

NextLoad == \E doc \in Documents : LoadDocument(doc)

SpecLoad == InitLoad /\ [][NextLoad]_vars

----------------------------------------------------------------------------
(* Views of entries of any content *)

\* Entries with the costs -1, 0 and 7; without a schedule, and with a
\* weekday without periods.
OddEntries ==
    {Entry(gA, nX, 0 - 1, OpenLunch), Entry(gA, nY, 0, EmptyMap),
     Entry(gB, nX, 7, "mon" :> <<>>)}
OddCatalogs ==
    {NilSlice} \cup {Slice(<<e>>) : e \in OddEntries}
        \cup {Slice(<<Entry(gA, nY, 0, EmptyMap), Entry(gB, nX, 7, "mon" :> <<>>)>>)}

\* Valid documents: one with an entry of cost -1, and one with votes only,
\* for a person outside the roster, with a value that is no vote, and with
\* null for the votes of a group.
OddDocuments ==
    {[kind |-> "object", keys |-> {"entries"},
      entries |-> Slice(<<Entry(gA, nX, 0 - 1, OpenLunch)>>),
      votes |-> [nil |-> TRUE, val |-> EmptyMap], groupOrder |-> NilSlice],
     [kind |-> "object", keys |-> {"votes"}, entries |-> NilSlice,
      votes |-> [nil |-> FALSE,
                 val |-> MapPut(MapPut(EmptyMap, "carol",
                                       MapPut(EmptyMap, gA, MapPut(EmptyMap, nY, "maybe"))),
                                "alice", MapPut(EmptyMap, gB, EmptyMap))],
      groupOrder |-> NilSlice]}

\* New with startup entries of any content.
InitFailures ==
    /\ InitRest
    /\ last = NoOp
    /\ \E entries \in OddCatalogs : db = NewDb(entries)

NextFailures ==
    \/ \E doc \in OddDocuments : LoadDocument(doc)
    \/ \E entries \in OddCatalogs : UpdateEntries(entries)
    \/ \E votes \in {MapPut(EmptyMap, FormKey(gA, nY), "strong-no")} :
          UpdateVotes("bob", votes)
    \/ \E order \in {Slice(<<gB>>)} : UpdateGroupOrder(order)
    \/ \E weekday \in {0, 1}, period \in {"lunch", "brunch"},
          iter \in Orders(groupKeys(db)) : TallyData(weekday, period, iter)
    \/ \E person \in {"alice", "carol"}, iter \in Orders(groupKeys(db)) :
          EntriesData(person, iter)

SpecFailures == InitFailures /\ [][NextFailures]_vars

----------------------------------------------------------------------------
(* Rosters and tokens *)

\* Rosters of up to three persons; New takes every map of persons to
\* tokens, the empty token and a token of two persons included.
PersonInputs == {"alice", "bob", "carol"}
RosterTokens == {"", "tokenA", "tokenB"}
Rosters == UNION {[ps -> RosterTokens] : ps \in SUBSET PersonInputs}

\* Tokens of requests; no token in a request is the token "".
TokenInputs == {"", "tokenA", "tokenB", "badtoken"}

InitAuth ==
    /\ people \in Rosters
    /\ tokens \in tokenMaps(people)
    /\ mu = Unlocked
    /\ calls = NoCalls
    /\ db = NewDb(NilSlice)
    /\ autoSaver = [configured |-> FALSE, delays |-> 0]
    /\ snapshot = NoDoc
    /\ saved = NewDb(NilSlice)
    /\ view = <<>>
    /\ last = NoOp
    /\ periods = EmptyMap
    /\ periodList = <<>>
    /\ now = [weekday |-> 0, hour |-> 0]
    /\ ret = ""

PersonForToken(token) ==
    /\ ret' = personForToken(tokens, token)
    /\ last' = [op |-> "personForToken", token |-> token]
    /\ UNCHANGED <<periods, periodList, now>>
    /\ UNCHANGED storeVars

NextAuth == \E token \in TokenInputs : PersonForToken(token)

SpecAuth == InitAuth /\ [][NextAuth]_vars

----------------------------------------------------------------------------
(* Concurrent callers of the store *)

\* The catalogs, the vote form, the group order and the document of the
\* concurrent calls.  The document changes all three fields of the db.
LockEntries ==
    {Slice(<<Entry(gA, nX, 1, OpenLunch)>>),
     Slice(<<Entry(gB, nX, 1, OpenLunch), Entry(gA, nX, 1, OpenLunch)>>)}
LockDocument ==
    [kind |-> "object", keys |-> {"entries", "votes", "groupOrder"},
     entries |-> Slice(<<Entry(gB, nX, 1, OpenLunch)>>),
     votes |-> [nil |-> FALSE,
                val |-> MapPut(EmptyMap, "bob",
                               MapPut(EmptyMap, gB, MapPut(EmptyMap, nX, "strong-no")))],
     groupOrder |-> Slice(<<gB, gA>>)]

\* The calls a goroutine may make: the operation and its arguments.
CallInputs ==
    {[op |-> "updateVotes",
      arg |-> [person |-> "alice", votes |-> MapPut(EmptyMap, FormKey(gA, nX), "yes")]]}
    \cup {[op |-> "updateEntries", arg |-> [entries |-> e]] : e \in LockEntries}
    \cup {[op |-> "updateGroupOrder", arg |-> [order |-> Slice(<<gA, gB>>)]]}
    \cup {[op |-> "Load", arg |-> [doc |-> LockDocument]]}
    \cup {[op |-> "tallyData", arg |-> [weekday |-> 1, period |-> "lunch"]]}
    \cup {[op |-> "entriesData", arg |-> [person |-> "alice"]]}
    \cup {[op |-> "Save", arg |-> <<>>]}

\* What a read returns from the fields it has read.
readResults(op, arg, local) ==
    CASE op = "tallyData" ->
            {tallyData(local, people, arg.weekday, arg.period, iter) :
                iter \in Orders(groupKeys(local))}
      [] op = "entriesData" ->
            {entriesData(local, arg.person, iter) :
                iter \in Orders(groupKeys(local))}
      [] op = "Save" -> {encodeDb(local)}

InitLocks ==
    /\ InitRest
    /\ last = NoOp
    /\ db = NewDb(Slice(<<Entry(gA, nX, 1, OpenLunch)>>))

\* A goroutine calls an operation of the store.
Call(g, c) ==
    /\ calls[g].phase = "idle"
    /\ calls' = [calls EXCEPT ![g] = [phase |-> "lock", op |-> c.op, arg |-> c.arg]]
    /\ UNCHANGED <<people, tokens, mu, db, autoSaver, snapshot, saved, last, view>>
    /\ UNCHANGED scheduleVars

\* a.mu.Lock() or a.mu.RLock() returns.
Acquire(g) ==
    /\ calls[g].phase = "lock"
    /\ IF calls[g].op \in Mutations
       THEN canLock(mu) /\ mu' = [mu EXCEPT !.writer = TRUE]
       ELSE canRLock(mu) /\ mu' = [mu EXCEPT !.readers = @ + 1]
    /\ calls' = [calls EXCEPT ![g] =
                    [phase |-> "cs", op |-> calls[g].op, arg |-> calls[g].arg,
                     k |-> 0, local |-> NewDb(NilSlice), atLock |-> db]]
    /\ UNCHANGED <<people, tokens, db, autoSaver, snapshot, saved, last, view>>
    /\ UNCHANGED scheduleVars

\* The next access to a field of a.db: a mutation writes it, a read reads
\* it; or the reader or the writer returns.  A reader or writer that blocks
\* is one whose step is not taken.
Step(g) ==
    /\ calls[g].phase = "cs"
    /\ calls[g].k < Len(fieldSteps(calls[g].op))
    /\ LET c == calls[g]
           field == fieldSteps(c.op)[c.k + 1]
       IN  IF c.op \in Mutations
           THEN /\ db' = IF field \in IOSteps THEN db
                          ELSE writeField(db, c.op, c.arg, field)
                /\ calls' = [calls EXCEPT ![g].k = @ + 1]
           ELSE /\ db' = db
                /\ calls' = IF field \in IOSteps
                            THEN [calls EXCEPT ![g].k = @ + 1]
                            ELSE [calls EXCEPT ![g].k = @ + 1,
                                               ![g].local[field] = db[field]]
    /\ UNCHANGED <<people, tokens, mu, autoSaver, snapshot, saved, last, view>>
    /\ UNCHANGED scheduleVars

\* The deferred a.mu.Unlock() or a.mu.RUnlock(), with the result made; the
\* db at the unlock is kept with the call.
Release(g) ==
    /\ calls[g].phase = "cs"
    /\ calls[g].k = Len(fieldSteps(calls[g].op))
    /\ LET c == calls[g]
       IN  IF c.op \in Mutations
           THEN /\ mu' = [mu EXCEPT !.writer = FALSE]
                /\ calls' = [calls EXCEPT ![g] =
                                [phase |-> "unlocked", op |-> c.op, arg |-> c.arg,
                                 atLock |-> c.atLock, atUnlock |-> db,
                                 result |-> <<>>]]
           ELSE /\ mu' = [mu EXCEPT !.readers = @ - 1]
                /\ \E r \in readResults(c.op, c.arg, c.local) :
                       calls' = [calls EXCEPT ![g] =
                                    [phase |-> "unlocked", op |-> c.op, arg |-> c.arg,
                                     atLock |-> c.atLock, atUnlock |-> db,
                                     result |-> r]]
    /\ UNCHANGED <<people, tokens, db, autoSaver, snapshot, saved, last, view>>
    /\ UNCHANGED scheduleVars

\* The operation returns; an update, after its deferred delayAutoSave.
Return(g) ==
    /\ calls[g].phase = "unlocked"
    /\ calls' = [calls EXCEPT ![g] = Idle]
    /\ autoSaver' = IF calls[g].op \in Mutations \ {"Load"}
                    THEN delayAutoSave(autoSaver) ELSE autoSaver
    /\ last' = [op |-> calls[g].op]
    /\ UNCHANGED <<people, tokens, mu, db, snapshot, saved, view>>
    /\ UNCHANGED scheduleVars

NextLocks ==
    \E g \in Goroutines :
        \/ \E c \in CallInputs : Call(g, c)
        \/ Acquire(g)
        \/ Step(g)
        \/ Release(g)
        \/ Return(g)

SpecLocks == InitLocks /\ [][NextLocks]_vars

----------------------------------------------------------------------------
(* The notifications of the auto-saver *)

\* The calls: the three updates and the three reads.
AutoSaveCalls ==
    {[op |-> "updateVotes",
      arg |-> [person |-> "alice", votes |-> MapPut(EmptyMap, FormKey(gA, nX), "yes")]],
     [op |-> "updateEntries",
      arg |-> [entries |-> Slice(<<Entry(gB, nX, 1, OpenLunch),
                                   Entry(gA, nX, 1, OpenLunch)>>)]],
     [op |-> "updateGroupOrder", arg |-> [order |-> Slice(<<gA, gB>>)]],
     [op |-> "tallyData", arg |-> [weekday |-> 1, period |-> "lunch"]],
     [op |-> "entriesData", arg |-> [person |-> "alice"]],
     [op |-> "Save", arg |-> <<>>]}

\* New with and without AutoSaveParams.FilePath.
InitAutoSave ==
    /\ people = testPeople
    /\ tokens \in tokenMaps(people)
    /\ mu = Unlocked
    /\ calls = NoCalls
    /\ db = NewDb(Slice(<<Entry(gA, nX, 1, OpenLunch)>>))
    /\ autoSaver \in [configured : BOOLEAN, delays : {0}]
    /\ snapshot = NoDoc
    /\ saved = NewDb(NilSlice)
    /\ view = <<>>
    /\ last = NoOp
    /\ periods = EmptyMap
    /\ periodList = <<>>
    /\ now = [weekday |-> 0, hour |-> 0]
    /\ ret = ""

NextAutoSave ==
    \/ \E g \in Goroutines :
          \/ \E c \in AutoSaveCalls : autoSaver.delays < MaxDelays /\ Call(g, c)
          \/ Acquire(g)
          \/ Step(g)
          \/ Release(g)
          \/ Return(g)
    \/ PersonForToken("tokenA")

SpecAutoSave == InitAutoSave /\ [][NextAutoSave]_vars

----------------------------------------------------------------------------
(* The operations of the store, one after another *)

FrameCatalogs ==
    {NilSlice,
     Slice(<<Entry(gA, nX, 1, OpenLunch), Entry(gB, nX, 2, OpenDinner)>>)}
\* The vote forms: two of alice and one of bob.
FrameVoteForms ==
    {<<"alice", MapPut(EmptyMap, FormKey(gA, nX), "yes")>>,
     <<"alice", MapPut(EmptyMap, FormKey(gB, nX), "strong-no")>>,
     <<"bob", MapPut(EmptyMap, FormKey(gA, nX), "yes")>>}

\* The store after New, with the period table lunch 10-15, dinner 15-0, on
\* a Monday at 16 o'clock.
InitFrame ==
    /\ InitStore
    /\ last = NoOp
    /\ db = NewDb(Slice(<<Entry(gA, nX, 1, OpenLunch),
                          Entry(gB, nX, 2, OpenDinner)>>))
    /\ periods = "lunch" :> <<10, 15>> @@ "dinner" :> <<15, 0>>
    /\ periodList \in periodLists(periods)
    /\ now = [weekday |-> 1, hour |-> 16]
    /\ ret = ""

NextFrame ==
    \/ \E form \in FrameVoteForms : UpdateVotes(form[1], form[2])
    \/ \E entries \in FrameCatalogs : UpdateEntries(entries)
    \/ UpdateGroupOrder(Slice(<<gB>>))
    \/ \E iter \in Orders(groupKeys(db)) : TallyData(1, "lunch", iter)
    \/ \E iter \in Orders(groupKeys(db)) : EntriesData("alice", iter)
    \/ Save
    \/ PersonForToken("tokenA")
    \/ PeriodTallyWeekday("lunch")

SpecFrame == InitFrame /\ [][NextFrame]_vars

----------------------------------------------------------------------------
(* Entry forms *)

\* The fields of entry forms, as key and value:
\*   "a|x" = "2"                  "a|x" = "1;mon:lunch"
\*   "b|x|y" = "3;;m;t:;w:l,d"    (parts "", "m" and "t:" are malformed)
\*   "ax" = "2"   "|x" = "2"   "a|" = "2"
\*   "a|y" = "5"  "a|y" = "0"  "a|y" = "x"  "a|y" = ""  "a|y" = "+4"
FieldInputs ==
    {<<FormKey(gA, nX), <<50>>>>,
     <<FormKey(gA, nX),
       <<49, Semicolon, 109, 111, 110, Colon, 108, 117, 110, 99, 104>>>>,
     <<FormKey(gB, nXY),
       <<51, Semicolon, Semicolon, 109, Semicolon, 116, Colon, Semicolon,
         119, Colon, 108, Comma, 100>>>>,
     <<gA \o nX, <<50>>>>,
     <<FormKey(<<>>, nX), <<50>>>>,
     <<FormKey(gA, <<>>), <<50>>>>,
     <<FormKey(gA, nY), <<53>>>>,
     <<FormKey(gA, nY), <<48>>>>,
     <<FormKey(gA, nY), <<120>>>>,
     <<FormKey(gA, nY), <<>>>>,
     <<FormKey(gA, nY), <<43, 52>>>>}

\* The field maps of forms: up to MaxFields fields with different keys.
FieldMaps ==
    {[k \in {f[1] : f \in fs} |-> (CHOOSE f \in fs : f[1] = k)[2]] :
        fs \in {x \in SUBSET FieldInputs :
                   /\ Cardinality(x) <= MaxFields
                   /\ \A f, g \in x : f[1] = g[1] => f = g}}

\* Entry forms: the fields, and the values of _groupOrder (nil when the
\* form has none); bad when ParseForm fails.
EntryForms ==
    [bad : {FALSE}, fields : FieldMaps, groupOrder : {NilSlice, Slice(<<gB, gA>>)}]
BadForm == [bad |-> TRUE, fields |-> EmptyMap, groupOrder |-> NilSlice]

InitEntryForm ==
    /\ InitRest
    /\ last = NoOp
    /\ db = NewDb(NilSlice)

\* POST /entries: handleEntriesPost up to the Unlock of
\* a.updateEntries(entries), the fields of the form iterated in the order
\* iter.  A request that is denied or whose form does not parse returns at
\* once.  The page it redirects to is not part of the state.
HandleEntriesPostEntries(g, token, form, iter) ==
    LET auth   == personForToken(tokens, token)
        status == IF ~auth.ok THEN 403 ELSE IF form.bad THEN 400 ELSE 303
    IN  /\ calls[g].phase = "idle"
        /\ IF status = 303
           THEN /\ db' = updateEntries(db, formEntries(form.fields, iter))
                /\ calls' = [calls EXCEPT ![g] =
                                [phase |-> "delayAutoSave",
                                 op |-> "handleEntriesPost",
                                 after |-> "updateEntries",
                                 token |-> token, form |-> form]]
                /\ last' = [op |-> "updateEntries", token |-> token,
                            form |-> form]
                /\ ret' = ret
           ELSE /\ ret' = [status |-> status]
                /\ last' = [op |-> "handleEntriesPost", token |-> token,
                            form |-> form]
                /\ UNCHANGED <<db, calls>>
        /\ UNCHANGED <<people, tokens, mu, autoSaver, snapshot, saved, view,
                       periods, periodList, now>>

\* handleEntriesPost: the deferred delayAutoSave of a.updateEntries, which
\* runs after its Unlock: other requests may have run in between.
HandleEntriesPostDelay(g) ==
    /\ calls[g].phase = "delayAutoSave"
    /\ calls[g].op = "handleEntriesPost"
    /\ calls[g].after = "updateEntries"
    /\ autoSaver' = delayAutoSave(autoSaver)
    /\ calls' = [calls EXCEPT ![g].phase = "updateGroupOrder"]
    /\ last' = [op |-> "delayAutoSave", token |-> calls[g].token,
                form |-> calls[g].form]
    /\ UNCHANGED <<people, tokens, mu, db, snapshot, saved, view,
                   periods, periodList, now, ret>>

\* handleEntriesPost: a.updateGroupOrder(groupOrder) up to its Unlock.
HandleEntriesPostGroupOrder(g) ==
    /\ calls[g].phase = "updateGroupOrder"
    /\ db' = updateGroupOrder(db, calls[g].form.groupOrder)
    /\ calls' = [calls EXCEPT ![g].phase = "delayAutoSave",
                              ![g].after = "updateGroupOrder"]
    /\ last' = [op |-> "updateGroupOrder", token |-> calls[g].token,
                form |-> calls[g].form]
    /\ UNCHANGED <<people, tokens, mu, autoSaver, snapshot, saved, view,
                   periods, periodList, now, ret>>

\* handleEntriesPost: the deferred delayAutoSave of a.updateGroupOrder,
\* and the redirect.
HandleEntriesPostRedirect(g) ==
    /\ calls[g].phase = "delayAutoSave"
    /\ calls[g].op = "handleEntriesPost"
    /\ calls[g].after = "updateGroupOrder"
    /\ autoSaver' = delayAutoSave(autoSaver)
    /\ calls' = [calls EXCEPT ![g] = Idle]
    /\ ret' = [status |-> 303]
    /\ last' = [op |-> "handleEntriesPost", token |-> calls[g].token,
                form |-> calls[g].form]
    /\ UNCHANGED <<people, tokens, mu, db, snapshot, saved, view,
                   periods, periodList, now>>

\* Forms sent with the token of alice, one request after another.
NextEntryForm ==
    \/ \E form \in EntryForms \cup {BadForm} :
          \E iter \in Orders(DOMAIN form.fields) :
              HandleEntriesPostEntries("g1", "tokenA", form, iter)
    \/ HandleEntriesPostDelay("g1")
    \/ HandleEntriesPostGroupOrder("g1")
    \/ HandleEntriesPostRedirect("g1")

SpecEntryForm == InitEntryForm /\ [][NextEntryForm]_vars

----------------------------------------------------------------------------
(* Requests with tokens *)

\* The roster of the tests, and a roster in which the token of alice is
\* empty.
RequestRosters == {testPeople, "alice" :> "" @@ "bob" :> "tokenB"}

\* Breakfast until 10 and dinner from 15: no period at 12 o'clock.
GapPeriods == "breakfast" :> <<0, 10>> @@ "dinner" :> <<15, 0>>

\* Vote forms and entry forms of the requests; the entry ("b", "x") of
\* the last form has the value "3;mon:breakfast".
RequestVoteForms ==
    {[bad |-> FALSE, fields |-> EmptyMap],
     [bad |-> FALSE, fields |-> MapPut(EmptyMap, FormKey(gA, nX), "yes")],
     [bad |-> TRUE, fields |-> EmptyMap]}
RequestEntryForms ==
    {[bad |-> FALSE, fields |-> MapPut(EmptyMap, FormKey(gA, nX), <<50>>),
      groupOrder |-> NilSlice],
     [bad |-> FALSE,
      fields |-> MapPut(EmptyMap, FormKey(gB, nX),
                        <<51, Semicolon, 109, 111, 110, Colon,
                          98, 114, 101, 97, 107, 102, 97, 115, 116>>),
      groupOrder |-> Slice(<<gB, gA>>)],
     BadForm}

InitRequests ==
    /\ people \in RequestRosters
    /\ tokens \in tokenMaps(people)
    /\ mu = Unlocked
    /\ calls = NoCalls
    /\ db = NewDb(Slice(<<Entry(gA, nX, 2, EmptyMap)>>))
    /\ autoSaver = [configured |-> FALSE, delays |-> 0]
    /\ snapshot = NoDoc
    /\ saved = NewDb(NilSlice)
    /\ view = <<>>
    /\ last = NoOp
    /\ periods = GapPeriods
    /\ periodList \in periodLists(periods)
    /\ now \in [weekday : {1}, hour : {9, 12}]
    /\ ret = ""

\* POST /votes: handleTallyPost up to the Unlock of
\* a.updateVotes(person, votes): the votes are stored before the period of
\* the hour is looked up.  A request that is denied or whose form does not
\* parse returns at once.
HandleTallyPostVotes(g, token, form) ==
    LET auth == personForToken(tokens, token)
    IN  /\ calls[g].phase = "idle"
        /\ IF auth.ok /\ ~form.bad
           THEN /\ db' = updateVotes(db, auth.person, form.fields)
                /\ calls' = [calls EXCEPT ![g] =
                                [phase |-> "delayAutoSave",
                                 op |-> "handleTallyPost",
                                 after |-> "updateVotes",
                                 token |-> token, form |-> form]]
                /\ last' = [op |-> "updateVotes", token |-> token,
                            form |-> form]
                /\ ret' = ret
           ELSE /\ ret' = [status |-> IF ~auth.ok THEN 403 ELSE 400]
                /\ last' = [op |-> "handleTallyPost", token |-> token,
                            form |-> form]
                /\ UNCHANGED <<db, calls>>
        /\ UNCHANGED <<people, tokens, mu, autoSaver, snapshot, saved, view,
                       periods, periodList, now>>

\* handleTallyPost: the deferred delayAutoSave of a.updateVotes, which runs
\* after its Unlock: other requests may have run in between.
HandleTallyPostDelay(g) ==
    /\ calls[g].phase = "delayAutoSave"
    /\ calls[g].op = "handleTallyPost"
    /\ autoSaver' = delayAutoSave(autoSaver)
    /\ calls' = [calls EXCEPT ![g].phase = "tallyData"]
    /\ last' = [op |-> "delayAutoSave", token |-> calls[g].token,
                form |-> calls[g].form]
    /\ UNCHANGED <<people, tokens, mu, db, snapshot, saved, view,
                   periods, periodList, now, ret>>

\* handleTallyPost from periodForHour on, with the keys of groupMap
\* iterated in the order iter: other requests may have run since
\* a.updateVotes returned.  Without a period the answer is 400; else the
\* view is the tally of the page.  When tallyData panics no answer is
\* written.
HandleTallyPostTally(g, iter) ==
    /\ calls[g].phase = "tallyData"
    /\ \E period \in periodForHour(periods, now.hour) :
           IF period = ""
           THEN ret' = [status |-> 400] /\ view' = view
           ELSE IF tallyPanics(db)
           THEN ret' = Panic[1] /\ view' = Panic
           ELSE /\ ret' = [status |-> 200]
                /\ view' = tallyData(db, people, now.weekday, period, iter)
    /\ calls' = [calls EXCEPT ![g] = Idle]
    /\ last' = [op |-> "handleTallyPost", token |-> calls[g].token,
                form |-> calls[g].form]
    /\ UNCHANGED <<people, tokens, mu, db, autoSaver, snapshot, saved,
                   periods, periodList, now>>

NextRequests ==
    \/ \E g \in Goroutines, token \in TokenInputs, form \in RequestVoteForms :
          HandleTallyPostVotes(g, token, form)
    \/ \E g \in Goroutines : HandleTallyPostDelay(g)
    \/ \E g \in Goroutines, iter \in Orders(groupKeys(db)) :
          HandleTallyPostTally(g, iter)
    \/ \E g \in Goroutines, token \in TokenInputs, form \in RequestEntryForms :
          \E iter \in Orders(DOMAIN form.fields) :
              HandleEntriesPostEntries(g, token, form, iter)
    \/ \E g \in Goroutines : HandleEntriesPostDelay(g)
    \/ \E g \in Goroutines : HandleEntriesPostGroupOrder(g)
    \/ \E g \in Goroutines : HandleEntriesPostRedirect(g)

SpecRequests == InitRequests /\ [][NextRequests]_vars

----------------------------------------------------------------------------
(* Vote forms by the hour *)

\* Vote forms for the entries ("a", "x") and ("b", "x").
TallyPostForms ==
    {[bad |-> FALSE, fields |-> EmptyMap],
     [bad |-> FALSE, fields |-> MapPut(EmptyMap, FormKey(gA, nX), "strong-no")],
     [bad |-> FALSE,
      fields |-> MapPut(MapPut(EmptyMap, FormKey(gB, nX), "strong-yes"),
                        FormKey(gA, nY), "yes")],
     [bad |-> TRUE, fields |-> EmptyMap]}

\* New with and without an auto-saver, with breakfast until 10 and dinner
\* from 15, at 9, 12 or 16 o'clock of a Monday or a Saturday.
InitTallyPost ==
    /\ people = testPeople
    /\ tokens \in tokenMaps(people)
    /\ mu = Unlocked
    /\ calls = NoCalls
    /\ db = NewDb(Slice(<<Entry(gA, nX, 1, "mon" :> <<"breakfast", "dinner">>),
                          Entry(gB, nX, 2, "sat" :> <<"dinner">>)>>))
    /\ autoSaver \in [configured : BOOLEAN, delays : {0}]
    /\ snapshot = NoDoc
    /\ saved = NewDb(NilSlice)
    /\ view = <<>>
    /\ last = NoOp
    /\ periods = GapPeriods
    /\ periodList \in periodLists(periods)
    /\ now \in [weekday : {1, 6}, hour : {9, 12, 16}]
    /\ ret = ""

NextTallyPost ==
    \/ \E g \in Goroutines, token \in {"tokenA", "tokenB", "badtoken"},
          form \in TallyPostForms :
          /\ autoSaver.delays
                 + Cardinality({h \in Goroutines :
                                   calls[h].phase = "delayAutoSave"})
                 < MaxDelays
          /\ HandleTallyPostVotes(g, token, form)
    \/ \E g \in Goroutines : HandleTallyPostDelay(g)
    \/ \E g \in Goroutines, iter \in Orders(groupKeys(db)) :
          HandleTallyPostTally(g, iter)

SpecTallyPost == InitTallyPost /\ [][NextTallyPost]_vars

----------------------------------------------------------------------------
(* Concurrent entry forms *)

\* Two entry forms: the entries "x" of the groups "a" and "b" with the
\* group order b, a; and the entries "y" of the same groups with the group
\* order a, b.
EditForms ==
    {[bad |-> FALSE,
      fields |-> MapPut(MapPut(EmptyMap, FormKey(gA, nX), <<49>>),
                        FormKey(gB, nX), <<49>>),
      groupOrder |-> Slice(<<gB, gA>>)],
     [bad |-> FALSE,
      fields |-> MapPut(MapPut(EmptyMap, FormKey(gA, nY), <<49>>),
                        FormKey(gB, nY), <<49>>),
      groupOrder |-> Slice(<<gA, gB>>)]}

InitEdits ==
    /\ InitRest
    /\ last = NoOp
    /\ db = NewDb(Slice(<<Entry(gA, nX, 1, OpenLunch)>>))

NextEdits ==
    \/ \E g \in Goroutines, form \in EditForms \cup {BadForm} :
          \E iter \in Orders(DOMAIN form.fields) :
              HandleEntriesPostEntries(g, "tokenA", form, iter)
    \/ \E g \in Goroutines : HandleEntriesPostDelay(g)
    \/ \E g \in Goroutines : HandleEntriesPostGroupOrder(g)
    \/ \E g \in Goroutines : HandleEntriesPostRedirect(g)
    \/ \E weekday \in WeekdayInputs, period \in PeriodInputs,
          iter \in Orders(groupKeys(db)) : TallyData(weekday, period, iter)
    \/ \E person \in DOMAIN people, iter \in Orders(groupKeys(db)) :
          EntriesData(person, iter)
    \/ Save

SpecEdits == InitEdits /\ [][NextEdits]_vars

----------------------------------------------------------------------------
(* Claims on vote submission *)

ValidVotes == {"strong-no", "no", "yes", "strong-yes"}

\* The (Group, Name) pairs of a catalog.
CatalogPairs(d) ==
    {<<d.Entries.elems[i].Group, d.Entries.elems[i].Name>> :
        i \in DOMAIN d.Entries.elems}

\* The triples a vote form should leave stored: a key "Group|Name", split at
\* its first separator, that names an entry of the catalog and carries one of
\* the four votes.
ExpectedVotes(d, votes) ==
    {<<p[1], p[2], votes[FormKey(p[1], p[2])]>> :
        p \in {q \in CatalogPairs(d) :
                  /\ ~Contains(q[1], Bar)
                  /\ FormKey(q[1], q[2]) \in DOMAIN votes
                  /\ votes[FormKey(q[1], q[2])] \in ValidVotes}}

\* C1: after updateVotes(P, M) the votes stored for P are exactly the
\* triples (Group, Name, v) with M["Group|Name"] = v, the key split at its
\* first separator, (Group, Name) an entry of the catalog at the time of the
\* call and v one of the four votes; every other key is dropped and the call
\* does not fail (P has a vote map afterwards).
C1_StoredVotesAreTheValidOnes ==
    last.op = "updateVotes" =>
        /\ last.person \in DOMAIN db.Votes
        /\ StoredVotes(db, last.person) = ExpectedVotes(db, last.votes)

\* A form of which one key was stored and another dropped.
C1_Witness ==
    /\ last.op = "updateVotes"
    /\ StoredVotes(db, last.person) # {}
    /\ Cardinality(StoredVotes(db, last.person)) < Cardinality(DOMAIN last.votes)

\* C2: updateVotes overwrites: after updateVotes(P, M2) every vote stored
\* for P comes from a key of M2, so an entry voted on before and absent from
\* M2 has no stored vote for P.
C2_Overwrite ==
    last.op = "updateVotes" =>
        \A t \in StoredVotes(db, last.person) :
            /\ FormKey(t[1], t[2]) \in DOMAIN last.votes
            /\ last.votes[FormKey(t[1], t[2])] = t[3]

\* A submission that removed a vote stored by an earlier one.
C2_Witness ==
    /\ last.op = "updateVotes"
    /\ last.removed > 0
    /\ StoredVotes(db, last.person) # {}

----------------------------------------------------------------------------
(* Claims on the tally *)

\* The score of a vote value.
ScoreOf(v) ==
    CASE v = "strong-no" -> 0 [] v = "no" -> 1 [] v = "yes" -> 2
      [] v = "strong-yes" -> 3

\* s(p, e): the score of p's stored vote for (group, name), 2 without one.
PersonScore(d, person, group, name) ==
    IF \E t \in StoredVotes(d, person) : t[1] = group /\ t[2] = name
    THEN ScoreOf((CHOOSE t \in StoredVotes(d, person) :
                     t[1] = group /\ t[2] = name)[3])
    ELSE 2

RECURSIVE SumOver(_, _)
SumOver(S, f) ==
    IF S = {} THEN 0
    ELSE LET x == CHOOSE y \in S : TRUE IN f[x] + SumOver(S \ {x}, f)

\* 3 * (sum over the roster of s(p, e)) - e.Cost.
ExpectedScore(d, ppl, e) ==
    3 * SumOver(DOMAIN ppl,
                [p \in DOMAIN ppl |-> PersonScore(d, p, e.Group, e.Name)])
        - e.Cost

\* The entries of the catalog.
CatalogEntries(d) == Range(d.Entries.elems)

\* The (group, entryData) pairs of a view.
ViewEntries(v) ==
    UNION {{<<v[i].Name, v[i].Entries[j]>> : j \in DOMAIN v[i].Entries} :
              i \in DOMAIN v}

\* The entryData a view shows for the entry (group, name).
Shown(v, group, name) ==
    {x[2] : x \in {y \in ViewEntries(v) : y[1] = group /\ y[2].Name = name}}

\* The vote stored for (person, group, name), "" without one.
StoredVote(d, person, group, name) ==
    IF \E t \in StoredVotes(d, person) : t[1] = group /\ t[2] = name
    THEN (CHOOSE t \in StoredVotes(d, person) : t[1] = group /\ t[2] = name)[3]
    ELSE ""

\* Two entries of the catalog with one name in different groups.
SameName(d) ==
    {p \in CatalogEntries(d) \X CatalogEntries(d) :
        p[1].Name = p[2].Name /\ p[1].Group # p[2].Group}

\* C3: votes are keyed by (Person, Group, Name): with entries (GroupA, N)
\* and (GroupB, N) in the catalog, a form with a value for each of
\* "GroupA|N" and "GroupB|N" stores both, each under its group, and the tally
\* scores and the vote page shows each of the two entries with the vote
\* stored under its own group only.
C3_VotesKeyedByGroupAndName ==
    \A p \in SameName(db) :
        LET e == p[1]
            o == p[2]
        IN  /\ (/\ last.op = "updateVotes"
                /\ FormKey(e.Group, e.Name) \in DOMAIN last.votes
                /\ FormKey(o.Group, o.Name) \in DOMAIN last.votes)
               => /\ StoredVote(db, last.person, e.Group, e.Name)
                        = last.votes[FormKey(e.Group, e.Name)]
                  /\ StoredVote(db, last.person, o.Group, o.Name)
                        = last.votes[FormKey(o.Group, o.Name)]
            /\ last.op = "tallyData" =>
                   \A x \in Shown(view, e.Group, e.Name) :
                       x.Score = ExpectedScore(db, people, e)
            /\ last.op = "entriesData" =>
                   \A x \in Shown(view, e.Group, e.Name) :
                       x.CurrentVote = StoredVote(db, last.person, e.Group, e.Name)

\* A tally of two entries of one name for which a person stored different
\* votes.
C3_Witness ==
    /\ last.op = "tallyData"
    /\ \E p \in SameName(db) :
        /\ StoredVote(db, "alice", p[1].Group, p[1].Name) = "strong-yes"
        /\ StoredVote(db, "alice", p[2].Group, p[2].Name) = "no"
        /\ Shown(view, p[1].Group, p[1].Name) # {}
        /\ Shown(view, p[2].Group, p[2].Name) # {}

\* C4: for every entry e, tallyData reports
\* Score(e) = 3 * (sum over the roster of s(p, e)) - e.Cost, where s(p, e) is
\* the score of p's stored vote for (e.Group, e.Name) and 2 without one.
C4_Score ==
    last.op = "tallyData" =>
        /\ \A e \in CatalogEntries(db) :
               /\ Shown(view, e.Group, e.Name) # {}
               /\ \A x \in Shown(view, e.Group, e.Name) :
                      x.Score = ExpectedScore(db, people, e)
        /\ \A x \in ViewEntries(view) :
               \E e \in CatalogEntries(db) : e.Group = x[1] /\ e.Name = x[2].Name

\* A tally of an entry one person voted strong-no on and the other did not
\* vote on.
C4_Witness ==
    /\ last.op = "tallyData"
    /\ \E e \in CatalogEntries(db) :
        /\ StoredVote(db, "alice", e.Group, e.Name) = "strong-no"
        /\ StoredVote(db, "bob", e.Group, e.Name) = ""
        /\ \E x \in Shown(view, e.Group, e.Name) : x.Score = 3 * (0 + 2) - e.Cost

\* Whether e is open: its Open schedule has the weekday's three-letter code
\* as a key and the list under that key contains the period.
WeekdayCode(wd) ==
    CASE wd = 0 -> "sun" [] wd = 1 -> "mon" [] wd = 2 -> "tue" [] wd = 3 -> "wed"
      [] wd = 4 -> "thu" [] wd = 5 -> "fri" [] wd = 6 -> "sat"
IsOpen(e, wd, period) ==
    /\ WeekdayCode(wd) \in DOMAIN e.Open
    /\ period \in Range(e.Open[WeekdayCode(wd)])

\* C5: in every group of tallyData(weekday, period) every open entry
\* precedes every closed entry, whatever the scores; an entry is flagged
\* Closed exactly when it is not open.
C5_OpenBeforeClosed ==
    last.op = "tallyData" =>
        /\ \A i \in DOMAIN view :
               \A j, k \in DOMAIN view[i].Entries :
                   (~view[i].Entries[j].Closed /\ view[i].Entries[k].Closed) => j < k
        /\ \A e \in CatalogEntries(db) :
               \A x \in Shown(view, e.Group, e.Name) :
                   x.Closed = ~IsOpen(e, last.weekday, last.period)

\* A group in which an open entry precedes a closed entry of higher score.
C5_Witness ==
    /\ last.op = "tallyData"
    /\ \E i \in DOMAIN view :
        \E j, k \in DOMAIN view[i].Entries :
            /\ j < k
            /\ ~view[i].Entries[j].Closed
            /\ view[i].Entries[k].Closed
            /\ view[i].Entries[j].Score < view[i].Entries[k].Score

\* C6: within the open and within the closed entries of a group,
\* consecutive entries are ordered by score descending, then cost
\* ascending, then name ascending.
C6_SortedWithinPartition ==
    last.op = "tallyData" =>
        \A i \in DOMAIN view :
            \A j \in DOMAIN view[i].Entries :
                LET es == view[i].Entries
                IN  (j + 1 \in DOMAIN es /\ es[j].Closed = es[j + 1].Closed) =>
                        \/ es[j].Score > es[j + 1].Score
                        \/ /\ es[j].Score = es[j + 1].Score
                           /\ Len(es[j].CostDisplay) < Len(es[j + 1].CostDisplay)
                        \/ /\ es[j].Score = es[j + 1].Score
                           /\ Len(es[j].CostDisplay) = Len(es[j + 1].CostDisplay)
                           /\ StrCompare(es[j].Name, es[j + 1].Name) < 0

\* A partition holding three entries: two of one score and different costs,
\* and two of one score and cost.
C6_Witness ==
    /\ last.op = "tallyData"
    /\ \E i \in DOMAIN view :
        LET es == view[i].Entries
        IN  /\ Len(es) = 3
            /\ ~es[3].Closed
            /\ es[1].Score = es[2].Score
            /\ es[2].Score = es[3].Score
            /\ Len(es[1].CostDisplay) = Len(es[2].CostDisplay)
            /\ Len(es[2].CostDisplay) < Len(es[3].CostDisplay)

----------------------------------------------------------------------------
(* C7: the order of the groups in the views *)

\* The group names of the view, in order.
ViewGroups == [i \in DOMAIN view |-> view[i].Name]

\* The names of S in ascending byte order.
Ascending(S) ==
    CHOOSE s \in Orders(S) :
        \A i, j \in DOMAIN s : i < j => StrCompare(s[i], s[j]) < 0

\* The group order restricted to the groups of the catalog, a name written
\* more than once kept where it is written first.
ListedFirst(order, present) ==
    LET Keep(i) == /\ order[i] \in present
                   /\ \A j \in DOMAIN order : j < i => order[j] # order[i]
        idx == SelectSeq([i \in DOMAIN order |-> i], Keep)
    IN  [k \in DOMAIN idx |-> order[idx[k]]]

\* The same, a name written more than once kept where it is written last.
ListedLast(order, present) ==
    LET Keep(i) == /\ order[i] \in present
                   /\ \A j \in DOMAIN order : j > i => order[j] # order[i]
        idx == SelectSeq([i \in DOMAIN order |-> i], Keep)
    IN  [k \in DOMAIN idx |-> order[idx[k]]]

\* The groups of the catalog that the group order does not name, ascending.
Unlisted(d) == Ascending(groupKeys(d) \ Range(d.GroupOrder.elems))

IsView == last.op \in {"tallyData", "entriesData"}

\* C7, as stated: in the tally view and in the vote view the groups named in
\* the stored group order come first, in the sequence of the group order (a
\* name's place being where the group order names it first), and the other
\* groups follow in ascending order; names without an entry in the catalog
\* do not appear.  For every group order, repeated names included.
C7_GroupOrderAsStated ==
    IsView =>
        ViewGroups = ListedFirst(db.GroupOrder.elems, groupKeys(db)) \o Unlisted(db)

\* C7, amended: in the tally view and in the vote view the groups named in
\* the stored group order come first, in the sequence of the group order,
\* a name written more than once taking the place of its last occurrence;
\* the other groups follow in ascending order; names without an entry in
\* the catalog do not appear.
C7_GroupOrder ==
    IsView =>
        ViewGroups = ListedLast(db.GroupOrder.elems, groupKeys(db)) \o Unlisted(db)

\* A view of groups "a", "b" and "c" under the group order "a", "b", "a":
\* "b" comes first, then "a", then the unlisted "c".
C7_Witness ==
    /\ IsView
    /\ db.GroupOrder.elems = <<gA, gB, gA>>
    /\ ViewGroups = <<gB, gA, gC>>

\* A view under a group order that names a group without entries between
\* two groups of the catalog, with one group left unlisted.
C7_WitnessUnknown ==
    /\ IsView
    /\ db.GroupOrder.elems = <<gC, gD, gA>>
    /\ ViewGroups = <<gC, gA, gB>>

----------------------------------------------------------------------------
(* C8, C9: the period of an hour and the weekday of a tally *)

\* The hours of the interval [start, end); it wraps past midnight when
\* start > end.
Interval(bounds) ==
    IF bounds[1] < bounds[2] THEN bounds[1]..(bounds[2] - 1)
    ELSE IF bounds[1] > bounds[2] THEN (bounds[1]..23) \cup (0..(bounds[2] - 1))
    ELSE {}

\* A table as the configuration accepts it: no period with equal start and
\* end, no hour in two periods.
HourDisjoint(ps) ==
    /\ \A p \in DOMAIN ps : ps[p][1] # ps[p][2]
    /\ \A p, q \in DOMAIN ps : p # q => Interval(ps[p]) \cap Interval(ps[q]) = {}

Covering(ps, h) == {p \in DOMAIN ps : h \in Interval(ps[p])}

\* C8: for a period table with hour-disjoint intervals and every hour of the
\* day, periodForHour returns the one period whose interval [start, end)
\* (wrapping past midnight when start > end) holds the hour, and "" when the
\* hour is in a gap; it never returns a period that does not hold the hour.
C8_PeriodForHour ==
    (last.op = "periodForHour" /\ HourDisjoint(periods)) =>
        /\ Cardinality(Covering(periods, last.hour)) <= 1
        /\ \A p \in Covering(periods, last.hour) : ret = p
        /\ Covering(periods, last.hour) = {} => ret = ""
        /\ ret # "" => ret \in Covering(periods, last.hour)

\* At 3 o'clock, with lunch from 10 to 15 and dinner from 15 to 10, the
\* period is dinner.
C8_Witness ==
    /\ last.op = "periodForHour"
    /\ HourDisjoint(periods)
    /\ DOMAIN periods = {"lunch", "dinner"}
    /\ periods["lunch"] = <<10, 15>>
    /\ periods["dinner"] = <<15, 10>>
    /\ last.hour = 3
    /\ ret = "dinner"

\* At 12 o'clock, with breakfast from 0 to 10 and dinner from 15 to 0, there
\* is no period.
C8_WitnessGap ==
    /\ last.op = "periodForHour"
    /\ HourDisjoint(periods)
    /\ DOMAIN periods = {"breakfast", "dinner"}
    /\ periods["breakfast"] = <<0, 10>>
    /\ periods["dinner"] = <<15, 0>>
    /\ last.hour = 12
    /\ ret = ""

\* The requested period is before the current period in the period list.
Earlier(requested, current) ==
    \E i, j \in DOMAIN periodList :
        i < j /\ periodList[i] = requested /\ periodList[j] = current

\* The period list holds every period once, by ascending start hour.
PeriodListSorted ==
    /\ Range(periodList) = DOMAIN periods
    /\ Len(periodList) = Cardinality(DOMAIN periods)
    /\ \A i, j \in DOMAIN periodList :
          i < j => periods[periodList[i]][1] <= periods[periodList[j]][1]

NextDay(d) == IF d = 6 THEN 0 ELSE d + 1

\* C9: with current weekday d and current hour h, periodTallyWeekday returns
\* d when the current period is the requested one; the day after d
\* (Sunday after Saturday) when both periods are in the period list, which
\* is sorted by ascending start hour, and the requested period is before the
\* current one; and d otherwise: when the requested period is later in the
\* list, when it is not in the list, and when h is in a gap.
C9_TallyWeekday ==
    last.op = "periodTallyWeekday" =>
        /\ PeriodListSorted
        /\ \/ last.current = "" /\ Covering(periods, now.hour) = {}
           \/ last.current \in Covering(periods, now.hour)
        /\ ret = IF last.current = last.period THEN now.weekday
                 ELSE IF Earlier(last.period, last.current)
                      THEN NextDay(now.weekday)
                      ELSE now.weekday
        /\ Earlier(last.current, last.period) => ret = now.weekday
        /\ last.current = "" => ret = now.weekday
        /\ (/\ last.period \in DOMAIN periods
            /\ last.current \in DOMAIN periods
            /\ periods[last.period][1] < periods[last.current][1])
              => ret = NextDay(now.weekday)

\* On a Saturday at 16 o'clock, with lunch from 10 to 15 and dinner from 15
\* to 0, the tally of lunch is Sunday's.
C9_Witness ==
    /\ last.op = "periodTallyWeekday"
    /\ now = [weekday |-> 6, hour |-> 16]
    /\ DOMAIN periods = {"lunch", "dinner"}
    /\ periods["lunch"] = <<10, 15>>
    /\ periods["dinner"] = <<15, 0>>
    /\ last.period = "lunch"
    /\ last.current = "dinner"
    /\ ret = 0

\* On a Saturday at 12 o'clock, in the gap between breakfast and dinner, the
\* tally of breakfast is Saturday's.
C9_WitnessGap ==
    /\ last.op = "periodTallyWeekday"
    /\ now = [weekday |-> 6, hour |-> 12]
    /\ DOMAIN periods = {"breakfast", "dinner"}
    /\ periods["breakfast"] = <<0, 10>>
    /\ periods["dinner"] = <<15, 0>>
    /\ last.period = "breakfast"
    /\ last.current = ""
    /\ ret = 6

----------------------------------------------------------------------------
(* C10: Save and Load *)

\* A document has been written and has just been loaded.
Loaded == last.op = "Load" /\ snapshot.kind = "object"

SameCatalog(d, e) == d.Entries.elems = e.Entries.elems

SameVotes(d, e) ==
    \A person \in DOMAIN d.Votes \cup DOMAIN e.Votes :
        StoredVotes(d, person) = StoredVotes(e, person)

SameGroupOrder(d, e) == d.GroupOrder.elems = e.GroupOrder.elems

\* C10: for every store reached through updateVotes, updateEntries and
\* updateGroupOrder, loading what Save wrote into a store, a new one or one
\* that holds other data, gives a store with the catalog, the vote of every
\* (person, group, name) and the group order of the store that was saved.
C10_RoundTrip ==
    Loaded => /\ SameCatalog(db, saved)
              /\ SameVotes(db, saved)
              /\ SameGroupOrder(db, saved)

\* What Save writes of the db: every string in it is valid UTF-8, and the
\* catalog and the group order are not nil.
ValidStrings(d) ==
    /\ \A i \in DOMAIN d.Entries.elems :
          /\ toValidUTF8(d.Entries.elems[i].Name) = d.Entries.elems[i].Name
          /\ toValidUTF8(d.Entries.elems[i].Group) = d.Entries.elems[i].Group
          /\ \A day \in DOMAIN d.Entries.elems[i].Open :
                /\ jsonString(day) = day
                /\ \A j \in DOMAIN d.Entries.elems[i].Open[day] :
                      jsonString(d.Entries.elems[i].Open[day][j])
                          = d.Entries.elems[i].Open[day][j]
    /\ \A i \in DOMAIN d.GroupOrder.elems :
          toValidUTF8(d.GroupOrder.elems[i]) = d.GroupOrder.elems[i]
    /\ \A person \in DOMAIN d.Votes :
          \A t \in StoredVotes(d, person) :
              toValidUTF8(t[1]) = t[1] /\ toValidUTF8(t[2]) = t[2]

\* The part of C10 that holds: the votes of a store of valid strings, and
\* its catalog and group order where they are not nil, are those loaded.
C10_RoundTripOfWrittenFields ==
    (Loaded /\ ValidStrings(saved)) =>
        /\ SameVotes(db, saved)
        /\ ~saved.Entries.nil => SameCatalog(db, saved)
        /\ ~saved.GroupOrder.nil => SameGroupOrder(db, saved)

\* A store saved without a group order and loaded into a store with the
\* group order "a": the group order is still "a".
C10_WitnessKept ==
    /\ Loaded
    /\ saved.GroupOrder = NilSlice
    /\ db.GroupOrder = Slice(<<gA>>)
    /\ SameCatalog(db, saved)
    /\ SameVotes(db, saved)

\* A store saved with an entry whose name is the byte 255 and loaded into a
\* new store: the name loaded is U+FFFD.
C10_WitnessCoerced ==
    /\ Loaded
    /\ saved.Entries = Slice(<<Entry(gA, nBad, 1, OpenLunch)>>)
    /\ db.Entries = Slice(<<Entry(gA, ReplacementChar, 1, OpenLunch)>>)

----------------------------------------------------------------------------
(* C11, C18: what Load returns and what it changes *)

\* C11: Load returns success exactly when its input is empty or a complete
\* valid document; every other input (corrupt, truncated, not valid JSON)
\* is returned as a "cannot deserialize data" error.
C11_LoadErrorAsStated ==
    last.op = "Load" =>
        /\ ret = "nil" <=> snapshot.kind \in {"none", "object"}
        /\ ret # "nil" => ret = "cannot deserialize data"

\* What holds of C11: Load returns the "cannot deserialize data" error
\* exactly when its input is not JSON or does not fit the db; an empty
\* input, a truncated one and a complete valid document return success.
C11_LoadError ==
    last.op = "Load" =>
        /\ ret = "cannot deserialize data" <=> snapshot.kind \in {"invalid", "mistyped"}
        /\ ret = "nil" <=> snapshot.kind \in {"none", "truncated", "object"}

\* A truncated document has been loaded into a store with data: Load
\* returned success and the store is as before.
C11_Witness ==
    /\ last.op = "Load"
    /\ snapshot.kind = "truncated"
    /\ ret = "nil"
    /\ db = last.before
    /\ db.Entries.elems # <<>>

\* The field is given a value by the document: its key is there and is not
\* null.
HasValue(doc, key, value) == key \in doc.keys /\ ~value.nil

\* C18, as stated: Load changes what the document provides: on a valid
\* document each of entries, votes and group order is replaced exactly when
\* its key is present in the document, and otherwise keeps its value; on
\* empty input and on input for which Load returns an error nothing changes.
C18_LoadFrameAsStated ==
    last.op = "Load" =>
        IF snapshot.kind = "object"
        THEN /\ db.Entries = IF "entries" \in snapshot.keys
                             THEN snapshot.entries ELSE last.before.Entries
             /\ db.Votes = IF "votes" \in snapshot.keys
                           THEN snapshot.votes.val ELSE last.before.Votes
             /\ db.GroupOrder = IF "groupOrder" \in snapshot.keys
                                THEN snapshot.groupOrder
                                ELSE last.before.GroupOrder
        ELSE (snapshot.kind = "none" \/ ret # "nil") => db = last.before

\* C18, amended: on a valid document each of entries, votes and group order
\* is replaced exactly when its key is present in the document with a
\* value other than null, and otherwise keeps its value; on empty input and
\* on input for which Load returns an error nothing changes.
C18_LoadFrame ==
    last.op = "Load" =>
        IF snapshot.kind = "object"
        THEN /\ db.Entries = IF HasValue(snapshot, "entries", snapshot.entries)
                             THEN snapshot.entries ELSE last.before.Entries
             /\ db.Votes = IF HasValue(snapshot, "votes", snapshot.votes)
                           THEN snapshot.votes.val ELSE last.before.Votes
             /\ db.GroupOrder = IF HasValue(snapshot, "groupOrder", snapshot.groupOrder)
                                THEN snapshot.groupOrder
                                ELSE last.before.GroupOrder
        ELSE (snapshot.kind = "none" \/ ret # "nil") => db = last.before

\* A document with votes and a null group order and without entries has
\* been loaded into a store with an entry, a vote and a group order: the
\* votes are the document's, the entries and the group order as before.
C18_Witness ==
    /\ last.op = "Load"
    /\ snapshot.kind = "object"
    /\ snapshot.keys = {"votes", "groupOrder"}
    /\ snapshot.groupOrder.nil
    /\ ~snapshot.votes.nil
    /\ db.Votes = snapshot.votes.val
    /\ db.Votes # last.before.Votes
    /\ db.Entries = last.before.Entries
    /\ db.Entries.elems # <<>>
    /\ db.GroupOrder = Slice(<<gA>>)

----------------------------------------------------------------------------
(* C12: persons and tokens *)

\* The persons of the roster whose token is t.
PersonsWithToken(t) == {person \in DOMAIN people : people[person] = t}

\* C12: for every roster, personForToken(t) returns found only when t is
\* the token of a person of the roster, and then returns that person; an
\* unknown token and the empty token are not found.
C12_PersonForTokenAsStated ==
    last.op = "personForToken" =>
        /\ ret.ok => ret.person \in PersonsWithToken(last.token)
        /\ PersonsWithToken(last.token) = {} => ~ret.ok
        /\ last.token = "" => ~ret.ok /\ ret.person = ""

\* What holds of C12: personForToken(t) returns found exactly when t is the
\* token of a person of the roster, and then a person with that token.
C12_PersonForToken ==
    last.op = "personForToken" =>
        /\ ret.ok <=> PersonsWithToken(last.token) # {}
        /\ ret.ok => ret.person \in PersonsWithToken(last.token)
        /\ ~ret.ok => ret.person = ""

\* In a roster where the token of alice is empty, the empty token is found
\* and is alice's.
C12_Witness ==
    /\ last.op = "personForToken"
    /\ DOMAIN people = {"alice", "bob"}
    /\ people["alice"] = ""
    /\ last.token = ""
    /\ ret = [person |-> "alice", ok |-> TRUE]

----------------------------------------------------------------------------
(* C13: the critical sections *)

InSection(g) == calls[g].phase = "cs"

\* C13: under every interleaving of concurrent callers the critical section
\* of a mutation (updateVotes, updateEntries, updateGroupOrder, Load)
\* overlaps the critical section of no other operation, and only reads
\* (tallyData, entriesData, Save) overlap each other; so the db does not
\* change while a read is in its critical section, and the snapshot or view
\* a read returns is that of the db at one instant between its call and its
\* return, the instant it took the lock.
C13_CriticalSections ==
    /\ \A g, h \in Goroutines :
          (g # h /\ InSection(g) /\ InSection(h)) =>
              calls[g].op \in Reads /\ calls[h].op \in Reads
    /\ \A g \in Goroutines :
          (InSection(g) /\ calls[g].op \in Reads) => db = calls[g].atLock
    /\ \A g \in Goroutines :
          (calls[g].phase = "unlocked" /\ calls[g].op \in Reads) =>
              calls[g].result \in
                  readResults(calls[g].op, calls[g].arg, calls[g].atLock)

\* tallyData is about to return the view of the db it locked, Load has
\* changed the db since, and Save is in its critical section.
C13_Witness ==
    /\ calls["g1"].phase = "unlocked"
    /\ calls["g1"].op = "tallyData"
    /\ calls["g1"].atLock.Votes # EmptyMap
    /\ calls["g1"].atLock.Entries # db.Entries
    /\ calls["g1"].atLock.GroupOrder # db.GroupOrder
    /\ InSection("g2")
    /\ calls["g2"].op = "Save"

\* Two reads are in their critical sections together.
C13_WitnessOverlap ==
    /\ InSection("g1") /\ calls["g1"].op = "tallyData"
    /\ InSection("g2") /\ calls["g2"].op = "entriesData"

----------------------------------------------------------------------------
(* C15: the catalog made of an entry form *)

\* The entry a field is to contribute, by the rules of the claim: none
\* for a key without '|', with nothing before or after the first '|', and
\* for a cost that is not a number or not in 1..4; the schedule holds the
\* parts of the form "day:periods".
NoEntry == [ok |-> FALSE]
ExpectedEntry(key, value) ==
    CASE key = FormKey(gA, nX) /\ value = <<50>> ->
            [ok |-> TRUE, entry |-> Entry(gA, nX, 2, EmptyMap)]
      [] key = FormKey(gA, nX) /\ value # <<50>> ->
            [ok |-> TRUE,
             entry |-> Entry(gA, nX, 1, OpenLunch)]
      [] key = FormKey(gB, nXY) ->
            [ok |-> TRUE,
             entry |-> Entry(gB, nXY, 3,
                             MapPut(EmptyMap, "w", <<"l", "d">>))]
      [] key = FormKey(gA, nY) /\ value = <<43, 52>> ->
            [ok |-> TRUE, entry |-> Entry(gA, nY, 4, EmptyMap)]
      [] OTHER -> NoEntry

ExpectedEntries(fields) ==
    {ExpectedEntry(k, fields[k]).entry :
        k \in {x \in DOMAIN fields : ExpectedEntry(x, fields[x]).ok}}

Accepted == last.op = "handleEntriesPost" /\ ret.status = 303

\* C15: after an authenticated entry form, whatever its content, every
\* entry of the catalog has a group and a name that are not empty and a
\* cost in 1..4, and no two entries have the same group and name; fields
\* without '|', with an empty group or name, with a cost that is not a
\* number or not in 1..4 give no entry, and malformed parts of a schedule
\* are skipped and the entry kept.
C15_CatalogOfForm ==
    Accepted =>
        LET es == db.Entries.elems
        IN  /\ \A i \in DOMAIN es :
                  /\ es[i].Group # <<>>
                  /\ es[i].Name # <<>>
                  /\ es[i].Cost \in 1..4
            /\ \A i, j \in DOMAIN es :
                  (es[i].Group = es[j].Group /\ es[i].Name = es[j].Name) => i = j
            /\ Range(es) = ExpectedEntries(last.form.fields)
            /\ Len(es) = Cardinality(ExpectedEntries(last.form.fields))

\* A form with "b|x|y" = "3;;m;t:;w:l,d" and "a|y" = "5": the catalog is
\* the entry ("b", "x|y") with cost 3, open on "w" for "l" and "d".
C15_Witness ==
    /\ Accepted
    /\ DOMAIN last.form.fields = {FormKey(gB, nXY), FormKey(gA, nY)}
    /\ last.form.fields[FormKey(gA, nY)] = <<53>>
    /\ Len(db.Entries.elems) = 1
    /\ db.Entries.elems[1].Name = nXY
    /\ db.Entries.elems[1].Cost = 3
    /\ db.Entries.elems[1].Open = "w" :> <<"l", "d">>

----------------------------------------------------------------------------
(* C14: requests without a valid token *)

\* The votes of every person but p are the same in d and e.
SameVotesButOf(p, d, e) ==
    \A q \in (DOMAIN d.Votes \cup DOMAIN e.Votes) \ {p} :
        /\ q \in DOMAIN d.Votes
        /\ q \in DOMAIN e.Votes
        /\ d.Votes[q] = e.Votes[q]

\* The step is the return of a request to POST /votes or POST /entries.
IsRequest == last'.op \in {"handleTallyPost", "handleEntriesPost"}

\* The step is an update of the store a request makes before it returns,
\* or the call of delayAutoSave that follows it.
IsRequestUpdate ==
    last'.op \in {"updateVotes", "updateEntries", "updateGroupOrder",
                  "delayAutoSave"}

\* C14: a request whose token is missing or is not the token of a person
\* of the roster is answered 403 and changes neither the entries nor any
\* votes nor the group order; a vote submission with a valid token changes
\* only the votes of the person the token belongs to.
C14_DeniedAsStated ==
    [][/\ (IsRequest /\ (last'.token = "" \/ PersonsWithToken(last'.token) = {})) =>
            (ret'.status = 403 /\ db' = db /\ calls' = calls)
       /\ IsRequestUpdate =>
            (last'.token # "" /\ PersonsWithToken(last'.token) # {})
       /\ last'.op \in {"handleTallyPost", "delayAutoSave"} => db' = db
       /\ last'.op = "updateVotes" =>
            /\ db'.Entries = db.Entries
            /\ db'.GroupOrder = db.GroupOrder
            /\ \E p \in PersonsWithToken(last'.token) :
                   SameVotesButOf(p, db, db')]_vars

\* What holds of C14: a request whose token is the token of no person of
\* the roster is answered 403 at once and changes nothing, and no other
\* request is answered 403; only requests with the token of a person
\* update the store, and a vote submission changes only the votes of a
\* person whose token it carries.
C14_Denied ==
    [][/\ IsRequest =>
            /\ PersonsWithToken(last'.token) = {} <=> ret'.status = 403
            /\ ret'.status = 403 => (db' = db /\ calls' = calls)
       /\ IsRequestUpdate => PersonsWithToken(last'.token) # {}
       /\ last'.op \in {"handleTallyPost", "delayAutoSave"} => db' = db
       /\ last'.op = "updateVotes" =>
            /\ db'.Entries = db.Entries
            /\ db'.GroupOrder = db.GroupOrder
            /\ \E p \in PersonsWithToken(last'.token) :
                   SameVotesButOf(p, db, db')]_vars

\* With a roster in which the token of alice is empty, a vote form sent
\* without a token was not denied and has stored a vote for alice.
C14_Witness ==
    /\ last.op = "handleTallyPost"
    /\ last.token = ""
    /\ people["alice"] = ""
    /\ ret.status # 403
    /\ "alice" \in DOMAIN db.Votes
    /\ StoredVotes(db, "alice") # {}

\* A vote form and an entry form with an unknown token have been denied.
C14_WitnessDenied ==
    /\ last.op = "handleEntriesPost"
    /\ last.token = "badtoken"
    /\ last.form.fields # EmptyMap
    /\ ret.status = 403
    /\ db.Entries.elems # <<>>
    /\ db.Entries.elems[1].Group = gA

----------------------------------------------------------------------------
(* C16: the period tables the configuration accepts *)

\* The hours hoursForPeriod lists for a period of the table.
HoursOf(p) == Range(hoursForPeriod(periods[p][1], periods[p][2]))

\* The hours for which periodForHour may return the period.
MatchedHours(p) == {h \in Hours : p \in periodForHour(periods, h)}

\* C16: Periods() accepts a period table with hours in 0..23 exactly when
\* no period has equal start and end and no hour is covered by two different
\* periods; the hours hoursForPeriod lists for [start, end), wrapping when
\* start > end, are those for which periodForHour matches the period; tables
\* with gaps are accepted.
C16_PeriodsAccepted ==
    last.op = "Periods" =>
        /\ ret.err = "" <=>
              /\ \A p \in DOMAIN periods : periods[p][1] # periods[p][2]
              /\ \A p, q \in DOMAIN periods :
                    p # q => HoursOf(p) \cap HoursOf(q) = {}
        /\ \A p \in DOMAIN periods :
              periods[p][1] # periods[p][2] =>
                  /\ HoursOf(p) = MatchedHours(p)
                  /\ HoursOf(p) = Interval(periods[p])
                  /\ Len(hoursForPeriod(periods[p][1], periods[p][2]))
                        = Cardinality(HoursOf(p))
        /\ ret.err = "" <=> HourDisjoint(periods)
        /\ ret.err = "" =>
              \A h \in Hours : Cardinality(periodForHour(periods, h)) = 1

\* Lunch from 10 to 15 and dinner from 15 to 10 the next day are accepted.
C16_Witness ==
    /\ last.op = "Periods"
    /\ DOMAIN periods = {"lunch", "dinner"}
    /\ periods["lunch"] = <<10, 15>>
    /\ periods["dinner"] = <<15, 10>>
    /\ ret.err = ""

\* Breakfast from 0 to 10 and dinner from 15 to 10 the next day are not.
C16_WitnessOverlap ==
    /\ last.op = "Periods"
    /\ DOMAIN periods = {"breakfast", "dinner"}
    /\ periods["breakfast"] = <<0, 10>>
    /\ periods["dinner"] = <<15, 10>>
    /\ ret.err = "overlap"

\* Breakfast from 0 to 10 and dinner from 15 to 0, with a gap from 10 to
\* 15, are accepted.
C16_WitnessGap ==
    /\ last.op = "Periods"
    /\ DOMAIN periods = {"breakfast", "dinner"}
    /\ periods["breakfast"] = <<0, 10>>
    /\ periods["dinner"] = <<15, 0>>
    /\ ret.err = ""

----------------------------------------------------------------------------
(* C17: the next weekday and periods that have passed *)

\* The hours the requested period covers on the current day.
RequestedHours == Interval(periods[last.period])

\* The current hour is after midnight in a period that began the day
\* before.
InWrappedPart ==
    /\ last.current \in DOMAIN periods
    /\ periods[last.current][1] > periods[last.current][2]
    /\ now.hour < periods[last.current][2]

\* C17: for every hour-disjoint period table, when periodTallyWeekday
\* returns the next weekday every hour the requested period covers on the
\* current day is earlier than the current hour, and when the requested
\* period still has hours at or after the current hour the current weekday
\* is returned; also when the current hour is in the part after midnight
\* of a period that wraps.
C17_PassedAsStated ==
    (/\ last.op = "periodTallyWeekday"
     /\ HourDisjoint(periods)
     /\ last.period \in DOMAIN periods) =>
        /\ ret = NextDay(now.weekday) =>
              \A h \in RequestedHours : h < now.hour
        /\ (\E h \in RequestedHours : h >= now.hour) => ret = now.weekday

\* What holds of C17: the same, for current hours that are not in the part
\* after midnight of a period that wraps.
C17_Passed ==
    (/\ last.op = "periodTallyWeekday"
     /\ HourDisjoint(periods)
     /\ last.period \in DOMAIN periods
     /\ ~InWrappedPart) =>
        /\ ret = NextDay(now.weekday) =>
              \A h \in RequestedHours : h < now.hour
        /\ (\E h \in RequestedHours : h >= now.hour) => ret = now.weekday

\* On a Tuesday at 3 o'clock, with lunch from 10 to 15 and dinner from 15 to
\* 10 the next day, the tally of lunch is Wednesday's, though lunch has not
\* begun.
C17_Witness ==
    /\ last.op = "periodTallyWeekday"
    /\ now = [weekday |-> 2, hour |-> 3]
    /\ DOMAIN periods = {"lunch", "dinner"}
    /\ periods["lunch"] = <<10, 15>>
    /\ periods["dinner"] = <<15, 10>>
    /\ last.period = "lunch"
    /\ last.current = "dinner"
    /\ InWrappedPart
    /\ ret = 3

----------------------------------------------------------------------------
(* C20: orphaned votes across Save and Load *)

\* Whether (group, name) is an entry of the catalog of d.
InCatalog(d, group, name) ==
    \E i \in DOMAIN d.Entries.elems :
        d.Entries.elems[i].Group = group /\ d.Entries.elems[i].Name = name

\* The votes stored in d for entries that are not in its catalog, as
\* (person, group, name, vote).
Orphans(d) ==
    UNION {{<<person, t[1], t[2], t[3]>> :
               t \in {u \in StoredVotes(d, person) : ~InCatalog(d, u[1], u[2])}} :
           person \in DOMAIN d.Votes}

\* C20: after Save followed by Load of the bytes it wrote, the store holds
\* no vote whose (group, name) is not an entry of the current catalog.
C20_DroppedAsStated == Loaded => Orphans(db) = {}

\* What holds of C20: Save writes the orphaned votes and Load restores them:
\* a vote that was orphaned in the store saved, its strings valid UTF-8, is
\* stored after Load, and is orphaned unless the catalog has its entry.
C20_Kept ==
    (Loaded /\ ValidStrings(saved)) =>
        \A o \in Orphans(saved) :
            /\ <<o[2], o[3], o[4]>> \in StoredVotes(db, o[1])
            /\ ~InCatalog(db, o[2], o[3]) => o \in Orphans(db)

\* A store with an empty catalog and the vote of alice for ("a", "x") was
\* saved and loaded: the vote is still stored.
C20_Witness ==
    /\ Loaded
    /\ saved.Entries = Slice(<<>>)
    /\ db.Entries = Slice(<<>>)
    /\ Orphans(saved) = {<<"alice", gA, nX, "yes">>}
    /\ Orphans(db) = {<<"alice", gA, nX, "yes">>}

----------------------------------------------------------------------------
(* C19: votes for entries removed from the catalog *)

\* The store d without the vote o = (person, group, name, vote).
WithoutVote(d, o) ==
    [d EXCEPT !.Votes[o[1]][o[2]] =
        [n \in DOMAIN d.Votes[o[1]][o[2]] \ {o[3]} |-> d.Votes[o[1]][o[2]][n]]]

\* The vote o is shown as the current vote of its person by entriesData.
ShownAsVote(d, o) ==
    \E iter \in Orders(groupKeys(d)) :
        LET v == entriesData(d, o[1], iter)
        IN  \E i \in DOMAIN v : \E j \in DOMAIN v[i].Entries :
                /\ v[i].Entries[j].Group = o[2]
                /\ v[i].Entries[j].Name = o[3]
                /\ v[i].Entries[j].CurrentVote = o[4]

\* The vote o changes a score or a veto flag of tallyData.
Counted(d, o) ==
    /\ <<o[2], o[3], o[4]>> \in StoredVotes(d, o[1])
    /\ \E weekday \in WeekdayInputs, period \in PeriodInputs,
          iter \in Orders(groupKeys(d)) :
            tallyData(d, people, weekday, period, iter)
                # tallyData(WithoutVote(d, o), people, weekday, period, iter)

Surfaced(d, o) == ShownAsVote(d, o) \/ Counted(d, o)

\* C19: updateEntries does not delete stored votes, and a vote stored for
\* an entry that updateEntries has removed from the catalog is never
\* surfaced again: whatever updateEntries, updateVotes by other persons,
\* updateGroupOrder, Save and Load follows, it contributes to no score, sets
\* no veto flag and is shown as no one's current vote.
C19_OrphanedAsStated ==
    [][/\ last'.op = "updateEntries" => db'.Votes = db.Votes
       /\ \A o \in Orphans(db) :
             ~(last'.op = "updateVotes" /\ last'.person = o[1])
                 => ~Surfaced(db', o)]_vars

\* What holds of C19: updateEntries does not delete stored votes, and a vote
\* is not surfaced in states whose catalog does not have its entry.
C19_NotInCatalog ==
    [][/\ last'.op = "updateEntries" => db'.Votes = db.Votes
       /\ \A o \in Orphans(db') : ~Surfaced(db', o)]_vars

\* The store was saved when the strong-no of alice for ("a", "x") was
\* orphaned; the entry is in the catalog again and the tally shows its
\* veto flag.
C19_Witness ==
    /\ last.op = "tallyData"
    /\ <<"alice", gA, nX, "strong-no">> \in Orphans(saved)
    /\ InCatalog(db, gA, nX)
    /\ Surfaced(db, <<"alice", gA, nX, "strong-no">>)
    /\ \E i \in DOMAIN view : \E j \in DOMAIN view[i].Entries :
          /\ view[i].Name = gA
          /\ view[i].Entries[j].Name = nX
          /\ view[i].Entries[j].StrongNo

----------------------------------------------------------------------------
(* C21: input and output under the lock *)

\* The call of g is at its reader or writer: Load before Decode has read,
\* Save with the db marshalled and the bytes not yet written.
AwaitingIO(g) ==
    /\ calls[g].phase = "cs"
    /\ calls[g].k < Len(fieldSteps(calls[g].op))
    /\ fieldSteps(calls[g].op)[calls[g].k + 1] \in IOSteps

\* A mutation of h waits for the lock.
WaitsToMutate(h) == calls[h].phase = "lock" /\ calls[h].op \in Mutations

\* C21: no operation performs I/O while it holds the lock of the store:
\* Save marshals the db under the read lock and writes the bytes after it
\* has released the lock, so that a writer that is slow or blocks delays no
\* concurrent mutation.
C21_NoIOUnderLockAsStated ==
    \A g \in Goroutines :
        AwaitingIO(g) =>
            /\ ~InSection(g)
            /\ \A h \in Goroutines \ {g} :
                  WaitsToMutate(h) => canLock(mu)

\* What holds of C21: Save has read the whole db when it writes, and it
\* writes, as Load reads, holding the lock; no mutation takes the lock
\* until the writer has returned.
C21_IOUnderLock ==
    \A g \in Goroutines :
        AwaitingIO(g) =>
            /\ InSection(g)
            /\ calls[g].op = "Save" =>
                  /\ mu.readers >= 1
                  /\ calls[g].local = db
                  /\ ~canLock(mu)
            /\ calls[g].op = "Load" => mu.writer

\* Save is at its writer and holds the read lock; updateVotes waits for the
\* lock and cannot take it.
C21_Witness ==
    /\ AwaitingIO("g1")
    /\ calls["g1"].op = "Save"
    /\ mu.readers = 1
    /\ WaitsToMutate("g2")
    /\ calls["g2"].op = "updateVotes"
    /\ ~canLock(mu)

----------------------------------------------------------------------------
(* C22: the notifications of the auto-saver *)

Updates == {"updateVotes", "updateEntries", "updateGroupOrder"}

\* The call of g returns in the step.
Returns(g) == calls[g].phase # "idle" /\ calls'[g] = Idle

\* The number of calls of Delay made in the step.
Emitted == autoSaver'.delays - autoSaver.delays

\* C22: with an auto-saver configured every call of updateVotes,
\* updateEntries and updateGroupOrder calls Delay exactly once, after the
\* mutation has been made and the write lock released; tallyData,
\* entriesData, Save and personForToken call it never; and without an
\* auto-saver Delay is not called.
C22_Notifications ==
    [][/\ autoSaver'.configured = autoSaver.configured
       /\ ~autoSaver.configured => Emitted = 0
       /\ Emitted # 0 => \E g \in Goroutines : Returns(g)
       /\ last'.op = "personForToken" => Emitted = 0
       /\ \A g \in Goroutines :
             Returns(g) =>
                 /\ calls[g].phase = "unlocked"
                 /\ Emitted = IF autoSaver.configured /\ calls[g].op \in Updates
                              THEN 1 ELSE 0
                 /\ calls[g].op \in Updates =>
                       /\ mu.writer => \E h \in Goroutines \ {g} :
                                          InSection(h) /\ calls[h].op \in Mutations
                       /\ calls[g].atUnlock =
                             writeField(calls[g].atLock, calls[g].op,
                                        calls[g].arg, fieldSteps(calls[g].op)[1])]_vars

\* With an auto-saver, updateEntries has returned after two other updates:
\* Delay has been called three times and the lock is free.
C22_Witness ==
    /\ autoSaver.configured
    /\ autoSaver.delays = 3
    /\ last.op = "updateEntries"
    /\ Len(db.Entries.elems) = 2
    /\ calls = NoCalls
    /\ mu = Unlocked

\* Without an auto-saver, updateVotes has returned and Delay has not been
\* called.
C22_WitnessNone ==
    /\ ~autoSaver.configured
    /\ autoSaver.delays = 0
    /\ last.op = "updateVotes"
    /\ "alice" \in DOMAIN db.Votes

----------------------------------------------------------------------------
(* C23: the catalog and the group order of an entry form *)

\* The catalog and the group order of d are those of New, or those of one
\* entry form.
Paired(d) ==
    \/ d.Entries = Slice(<<Entry(gA, nX, 1, OpenLunch)>>) /\ d.GroupOrder = NilSlice
    \/ \E form \in EditForms :
          /\ d.GroupOrder = form.groupOrder
          /\ \E iter \in Orders(DOMAIN form.fields) :
                d.Entries = formEntries(form.fields, iter)

\* The names of the groups of a view, and of its entries.
ViewGroupNames == [i \in DOMAIN view |-> view[i].Name]
ViewEntryNames ==
    UNION {{view[i].Entries[j].Name : j \in DOMAIN view[i].Entries} :
              i \in DOMAIN view}

\* C23: the catalog and the group order of one handleEntriesPost request
\* become visible together: no tallyData, entriesData or Save that runs
\* concurrently sees the new catalog with the previous group order, and two
\* concurrent requests never leave the catalog of one with the group order
\* of the other.
C23_AtomicEditAsStated ==
    /\ last.op \in {"tallyData", "entriesData", "Save"} => Paired(db)
    /\ calls = NoCalls => Paired(db)

\* What holds of C23: each of the two updates of a request is made whole:
\* the catalog is that of New or of one form, the group order that of New
\* or of one form, and Save writes the db of one instant.
C23_EachUpdateWhole ==
    /\ \E form \in EditForms \cup {[fields |-> EmptyMap, groupOrder |-> NilSlice]} :
          \/ db.Entries = Slice(<<Entry(gA, nX, 1, OpenLunch)>>)
          \/ \E iter \in Orders(DOMAIN form.fields) :
                db.Entries = formEntries(form.fields, iter)
    /\ db.GroupOrder \in {NilSlice} \cup {form.groupOrder : form \in EditForms}
    /\ last.op = "Save" => saved = db

\* Both requests have returned: the catalog is that of the form with the
\* entries "x", the group order that of the form with the entries "y".
C23_Witness ==
    /\ calls = NoCalls
    /\ last.op = "handleEntriesPost"
    /\ ret = [status |-> 303]
    /\ {db.Entries.elems[i].Name : i \in DOMAIN db.Entries.elems} = {nX}
    /\ Len(db.Entries.elems) = 2
    /\ db.GroupOrder = Slice(<<gA, gB>>)
    /\ ~Paired(db)

\* Between the two updates of a request tallyData has listed the entries
\* "y" of the form under the group order b, a of the form before.
C23_WitnessView ==
    /\ last.op = "tallyData"
    /\ calls["g1"].phase = "updateGroupOrder"
    /\ calls["g2"] = Idle
    /\ ViewEntryNames = {nY}
    /\ ViewGroupNames = <<gB, gA>>
    /\ calls["g1"].form.groupOrder = Slice(<<gA, gB>>)

----------------------------------------------------------------------------
(* C24: the veto flag *)

\* The persons of the roster with a stored strong-no for (group, name).
Vetoers(group, name) ==
    {person \in DOMAIN people :
        <<group, name, "strong-no">> \in StoredVotes(db, person)}

\* C24: the veto flag of an entry of the tally is true exactly when some
\* person of the roster has the stored vote strong-no for the group and
\* name of the entry; it does not follow from the score, and it is false
\* when nobody voted strong-no, also when every vote is the default.
C24_VetoFlag ==
    last.op = "tallyData" =>
        \A i \in DOMAIN view : \A j \in DOMAIN view[i].Entries :
            /\ view[i].Entries[j].StrongNo
                  <=> Vetoers(view[i].Name, view[i].Entries[j].Name) # {}
            /\ (\A person \in DOMAIN people : StoredVotes(db, person) = {})
                  => ~view[i].Entries[j].StrongNo

\* Two entries of the tally with the score 8: "x" with a strong-no and a
\* strong-yes has the flag, "z" with no vote at all has not.
C24_Witness ==
    /\ last.op = "tallyData"
    /\ \E i \in DOMAIN view : \E j, k \in DOMAIN view[i].Entries :
          /\ view[i].Name = gA
          /\ view[i].Entries[j].Name = nX
          /\ view[i].Entries[k].Name = nZ
          /\ view[i].Entries[j].Score = 8
          /\ view[i].Entries[k].Score = 8
          /\ view[i].Entries[j].StrongNo
          /\ ~view[i].Entries[k].StrongNo
          /\ Cardinality(Vetoers(gA, nX)) = 1

----------------------------------------------------------------------------
(* C25: the tally does not depend on the order of the catalog *)

\* The sequences with the elements of seq in every order.
Reorderings(seq) ==
    {[i \in DOMAIN seq |-> seq[o[i]]] : o \in Orders(DOMAIN seq)}

\* The entries of the catalog have different (group, name) pairs.
UniqueEntries(d) ==
    \A i, j \in DOMAIN d.Entries.elems :
        (/\ d.Entries.elems[i].Group = d.Entries.elems[j].Group
         /\ d.Entries.elems[i].Name = d.Entries.elems[j].Name) => i = j

\* C25: for catalog entries with unique (group, name), and given votes,
\* roster and group order, tallyData(weekday, period) returns the same
\* groups in the same order, each with the same entries in the same order,
\* whatever the order of the entries in the catalog and whatever the
\* iteration order of the maps.
C25_Deterministic ==
    (last.op = "tallyData" /\ UniqueEntries(db)) =>
        \A es \in Reorderings(db.Entries.elems) :
            \A iter \in Orders(groupKeys(db)) :
                tallyData([db EXCEPT !.Entries = Slice(es)], people,
                          last.weekday, last.period, iter) = view

\* The tally of the catalog z, y, x of group "a", with "x" and "y" of equal
\* score and cost: x, y, z.
C25_Witness ==
    /\ last.op = "tallyData"
    /\ UniqueEntries(db)
    /\ Len(db.Entries.elems) = 3
    /\ db.Entries.elems[1].Name = nZ
    /\ db.Entries.elems[2].Name = nY
    /\ db.Entries.elems[3].Name = nX
    /\ db.Entries.elems[3].Group = gA
    /\ Len(view) = 1
    /\ Len(view[1].Entries) = 3
    /\ view[1].Entries[1].Name = nX
    /\ view[1].Entries[2].Name = nY
    /\ view[1].Entries[1].Score = view[1].Entries[2].Score
    /\ view[1].Entries[1].CostDisplay = view[1].Entries[2].CostDisplay

----------------------------------------------------------------------------
(* C26: views that do not return *)

\* C26: tallyData and entriesData never fail: in every store reached from
\* New with any startup entries through Load of valid documents,
\* updateEntries, updateVotes and updateGroupOrder, for every weekday and
\* period name, they return a view, whatever the cost and the schedule of
\* the entries and whatever the stored votes.
C26_NeverFailAsStated ==
    last.op \in {"tallyData", "entriesData"} => view # Panic

\* What holds of C26: entriesData always returns a view, and tallyData
\* returns one exactly when no entry of the catalog has a negative cost.
C26_FailsOnNegativeCost ==
    /\ last.op = "entriesData" => view # Panic
    /\ last.op = "tallyData" =>
          (view = Panic <=>
              \E i \in DOMAIN db.Entries.elems : db.Entries.elems[i].Cost < 0)

\* New was given an entry of cost -1 and tallyData has panicked.
C26_Witness ==
    /\ last.op = "tallyData"
    /\ db.Entries = Slice(<<Entry(gA, nX, 0 - 1, OpenLunch)>>)
    /\ snapshot = NoDoc
    /\ view = Panic

\* With entries of cost 0 and 7 and the votes of a document, tallyData has
\* returned a view for the period "brunch".
C26_WitnessView ==
    /\ last.op = "tallyData"
    /\ last.period = "brunch"
    /\ "carol" \in DOMAIN db.Votes
    /\ Len(db.Entries.elems) = 2
    /\ view # Panic
    /\ Len(view) = 2

----------------------------------------------------------------------------
(* C27: every entry is listed once *)

\* How many entries of the catalog, and of the view, have the group and
\* the name.
InCatalogCount(group, name) ==
    Cardinality({i \in DOMAIN db.Entries.elems :
                    /\ db.Entries.elems[i].Group = group
                    /\ db.Entries.elems[i].Name = name})
InViewCount(group, name) ==
    Cardinality({p \in UNION {{<<i, j>> : j \in DOMAIN view[i].Entries} :
                                 i \in DOMAIN view} :
                    /\ view[p[1]].Name = group
                    /\ view[p[1]].Entries[p[2]].Name = name})

\* The (group, name) pairs of the catalog and of the view.
ListedPairs ==
    {<<db.Entries.elems[i].Group, db.Entries.elems[i].Name>> :
        i \in DOMAIN db.Entries.elems}
        \cup UNION {{<<view[i].Name, view[i].Entries[j].Name>> :
                        j \in DOMAIN view[i].Entries} : i \in DOMAIN view}

\* C27: tallyData and entriesData list every entry of the catalog once,
\* under the group its Group field names: the (group, name) pairs of the
\* view are those of the catalog, each as many times, and no group of the
\* view is empty.
C27_EveryEntryOnce ==
    (last.op \in {"tallyData", "entriesData"} /\ view # Panic) =>
        /\ \A p \in ListedPairs : InViewCount(p[1], p[2]) = InCatalogCount(p[1], p[2])
        /\ \A i \in DOMAIN view : view[i].Entries # <<>>
        /\ \A i, j \in DOMAIN view : view[i].Name = view[j].Name => i = j
        /\ last.op = "entriesData" =>
              \A i \in DOMAIN view : \A j \in DOMAIN view[i].Entries :
                  view[i].Entries[j].Group = view[i].Name

\* The catalog has ("a", "x") twice and ("b", "x") between them; the tally
\* has the group "a" with two entries and the group "b" with one.
C27_Witness ==
    /\ last.op = "tallyData"
    /\ Len(db.Entries.elems) = 3
    /\ db.Entries.elems[1].Group = gA
    /\ db.Entries.elems[2].Group = gB
    /\ db.Entries.elems[3].Group = gA
    /\ Len(view) = 2
    /\ InViewCount(gA, nX) = 2
    /\ InViewCount(gB, nX) = 1

----------------------------------------------------------------------------
(* C28: what each operation leaves unchanged *)

\* C28: updateVotes(P, M) leaves the catalog, the group order and the votes
\* of every person other than P unchanged; updateEntries leaves the votes
\* and the group order unchanged; updateGroupOrder leaves the catalog and
\* the votes unchanged; tallyData, entriesData, Save, personForToken and
\* periodTallyWeekday leave the whole store unchanged.
C28_Frames ==
    [][/\ last'.op = "updateVotes" =>
             /\ db'.Entries = db.Entries
             /\ db'.GroupOrder = db.GroupOrder
             /\ \A q \in DOMAIN db.Votes \ {last'.person} :
                   q \in DOMAIN db'.Votes /\ db'.Votes[q] = db.Votes[q]
             /\ DOMAIN db'.Votes = DOMAIN db.Votes \cup {last'.person}
       /\ last'.op = "updateEntries" =>
             db'.Votes = db.Votes /\ db'.GroupOrder = db.GroupOrder
       /\ last'.op = "updateGroupOrder" =>
             db'.Entries = db.Entries /\ db'.Votes = db.Votes
       /\ last'.op \in {"tallyData", "entriesData", "Save", "personForToken",
                         "periodTallyWeekday"} => db' = db]_vars

\* updateEntries has emptied the catalog of a store with a vote of alice, a
\* vote of bob and a group order: both votes and the group order are as
\* they were.
C28_Witness ==
    /\ last.op = "updateEntries"
    /\ db.Entries = NilSlice
    /\ StoredVotes(db, "alice") = {<<gB, nX, "strong-no">>}
    /\ StoredVotes(db, "bob") = {<<gA, nX, "yes">>}
    /\ db.GroupOrder = Slice(<<gB>>)

\* updateVotes has replaced the vote of alice in a store with a vote of
\* bob: the vote of bob is as it was.
C28_WitnessVotes ==
    /\ last.op = "updateVotes"
    /\ last.person = "alice"
    /\ last.removed = 1
    /\ StoredVotes(db, "alice") = {<<gB, nX, "strong-no">>}
    /\ StoredVotes(db, "bob") = {<<gA, nX, "yes">>}

----------------------------------------------------------------------------
(* C29: the stored votes *)

\* The vote t = (group, name, value) of person p in the step is one that
\* updateVotes has just stored for an entry of the catalog.
JustSubmitted(p, t) ==
    /\ last'.op = "updateVotes"
    /\ last'.person = p
    /\ InCatalog(db, t[1], t[2])

\* C29: in every state reached from New through updateVotes,
\* updateEntries, updateGroupOrder, Save and Load of what Save wrote, the
\* votes map is defined, every stored vote is one of strong-no, no, yes and
\* strong-yes, and every stored vote is for a (group, name) that was in the
\* catalog when the vote was submitted: a stored vote was stored before,
\* in the db or in the db that was saved, or has just been submitted for an
\* entry of the catalog.
C29_StoredVotesAsStated ==
    [][/\ (last'.op = "Load" /\ snapshot.kind = "object") => ~snapshot.votes.nil
       /\ \A p \in DOMAIN db'.Votes : \A t \in StoredVotes(db', p) :
             /\ t[3] \in DOMAIN voteScores
             /\ \/ t \in StoredVotes(db, p)
                \/ t \in StoredVotes(saved, p)
                \/ JustSubmitted(p, t)]_vars

\* What holds of C29: the same, with the group and the name of a vote that
\* Load stores being those of a saved vote coerced to valid UTF-8.
C29_StoredVotes ==
    [][/\ (last'.op = "Load" /\ snapshot.kind = "object") => ~snapshot.votes.nil
       /\ \A p \in DOMAIN db'.Votes : \A t \in StoredVotes(db', p) :
             /\ t[3] \in DOMAIN voteScores
             /\ \/ t \in StoredVotes(db, p)
                \/ \E u \in StoredVotes(saved, p) :
                      t = <<toValidUTF8(u[1]), toValidUTF8(u[2]), u[3]>>
                \/ JustSubmitted(p, t)]_vars

\* The vote of alice for the entry named by the byte 255 was saved and
\* loaded: her stored vote is for the name U+FFFD, which no catalog had
\* when she voted.
C29_Witness ==
    /\ Loaded
    /\ StoredVotes(saved, "alice") = {<<gA, nBad, "no">>}
    /\ StoredVotes(db, "alice") = {<<gA, ReplacementChar, "no">>}

----------------------------------------------------------------------------
(* C30: a vote form in a gap of the period table *)

\* The step stores the votes of a request of a person of the roster with
\* a form that parses.
Submission == last'.op = "updateVotes"

Submitter == CHOOSE person \in DOMAIN people : people[person] = last'.token

\* The step is the call of delayAutoSave by goroutine g after its votes
\* were stored.
Notification(g) ==
    /\ calls[g].phase = "delayAutoSave"
    /\ calls'[g].phase = "tallyData"

\* The step is the return of such a request by goroutine g.
Answer(g) ==
    /\ last'.op = "handleTallyPost"
    /\ calls[g].phase = "tallyData"
    /\ calls'[g] = Idle

\* C30: handleTallyPost stores the cleaned votes before it looks up the
\* period: a submission with a valid token is stored and then the
\* auto-saver notified whatever the hour, and when the hour is in a gap of
\* the period table the request is then answered 400; at an hour in a
\* period the answer is the tally of the current weekday and the current
\* period.
C30_StoredBeforePeriod ==
    [][/\ Submission =>
            /\ db' = updateVotes(db, Submitter, last'.form.fields)
            /\ Emitted = 0
            /\ ret' = ret /\ view' = view
       /\ \A g \in Goroutines : Notification(g) =>
            /\ last'.op = "delayAutoSave"
            /\ Emitted = IF autoSaver.configured THEN 1 ELSE 0
            /\ db' = db /\ ret' = ret /\ view' = view
       /\ \A g \in Goroutines : Answer(g) =>
            /\ last'.token = calls[g].token /\ last'.form = calls[g].form
            /\ db' = db /\ Emitted = 0
            /\ Covering(periods, now.hour) = {} =>
                  ret'.status = 400 /\ view' = view
            /\ \A period \in Covering(periods, now.hour) :
                  /\ ret'.status = 200
                  /\ \E iter \in Orders(groupKeys(db)) :
                        view' = tallyData(db, people, now.weekday, period, iter)
       /\ \A g \in Goroutines :
            (calls[g].phase # "delayAutoSave" /\ calls'[g].phase = "delayAutoSave") =>
                /\ Submission
                /\ calls'[g].token = last'.token
                /\ calls'[g].form = last'.form
       /\ \A g \in Goroutines :
            (calls[g].phase # "tallyData" /\ calls'[g].phase = "tallyData") =>
                Notification(g)]_vars

\* At 12 o'clock, in the gap, the form of alice was answered 400; her
\* strong-no is stored and Delay has been called.
C30_Witness ==
    /\ last.op = "handleTallyPost"
    /\ last.token = "tokenA"
    /\ calls = NoCalls
    /\ now.hour = 12
    /\ ret = [status |-> 400]
    /\ last.form.fields = MapPut(EmptyMap, FormKey(gA, nX), "strong-no")
    /\ StoredVotes(db, "alice") = {<<gA, nX, "strong-no">>}
    /\ autoSaver.configured
    /\ autoSaver.delays = 1
    /\ view = <<>>

\* On a Saturday at 16 o'clock the form of bob was answered with the tally
\* of Saturday's dinner: ("a", "x") is closed, ("b", "x") is open.
C30_WitnessTally ==
    /\ last.op = "handleTallyPost"
    /\ last.token = "tokenB"
    /\ now = [weekday |-> 6, hour |-> 16]
    /\ ret = [status |-> 200]
    /\ StoredVotes(db, "bob") = {<<gB, nX, "strong-yes">>}
    /\ Len(view) = 2
    /\ view[1].Name = gA /\ view[1].Entries[1].Closed
    /\ view[2].Name = gB /\ ~view[2].Entries[1].Closed
    /\ view[2].Entries[1].Score = 13

\* While the request of alice waited between its steps, bob's vote was
\* stored: the tally alice is answered with counts it.
C30_WitnessBetween ==
    /\ last.op = "handleTallyPost"
    /\ last.token = "tokenA"
    /\ last.form.fields = EmptyMap
    /\ calls["g1"] = Idle
    /\ calls["g2"].phase = "delayAutoSave"
    /\ calls["g2"].token = "tokenB"
    /\ autoSaver = [configured |-> TRUE, delays |-> 1]
    /\ now = [weekday |-> 6, hour |-> 16]
    /\ ret = [status |-> 200]
    /\ StoredVotes(db, "bob") = {<<gB, nX, "strong-yes">>}
    /\ view[2].Entries[1].Score = 13

====
